---- MODULE Spec2Model ----
(***************************************************************************)
(* A model of cryptex's TemporalIsolationEngine                            *)
(* (src/src/cryptex/core/engine.py): secret detection, placeholder         *)
(* substitution, placeholder resolution and the LRU/TTL context cache.     *)
(*                                                                         *)
(* Text is modelled as a sequence of symbols.  A symbol stands for a run   *)
(* of characters of the real text; the algorithms of the engine only use   *)
(* positions, lengths, substring search and slicing, which are modelled    *)
(* symbol by symbol exactly as the code performs them character by         *)
(* character.  Positions are 0-based and slices half-open, as in Python.   *)
(***************************************************************************)
EXTENDS Integers, Sequences, FiniteSets, TLC

(***************************************************************************)
(* Symbols.                                                                *)
(*   "k"  the key prefix "sk-"                                             *)
(*   "a", "b"  alphanumeric characters                                     *)
(*   "H"  a home prefix "/Users/" or "/home/" (contains slashes)           *)
(*   " "  whitespace                                                       *)
(* and the symbols placeholders are made of.                               *)
(***************************************************************************)
Alnum == {"a", "b"}

Whitespace == {" "}

InSymbols == {" ", "a", "b", "k", "H"}

HashSyms == <<"0", "1", "2", "3", "4", "5", "6">>

PlaceholderSymbols ==
    {"{{OPENAI_API_KEY}}", "{RESOLVE:OPENAI_KEY:", "{RESOLVE:FILE_PATH:", "}"}
        \cup {HashSyms[i] : i \in 1..Len(HashSyms)}

AllSymbols == InSymbols \cup PlaceholderSymbols

\* [^\s]
NonSpace == AllSymbols \ Whitespace

\* [^/\s]: "H" holds slashes
NonSlashNonSpace == AllSymbols \ (Whitespace \cup {"H"})

Min(x, y) == IF x <= y THEN x ELSE y

Max(x, y) == IF x >= y THEN x ELSE y

\* Python's text[i:j] for 0 <= i, with j clamped to the length of text.
Slice(text, i, j) ==
    SubSeq(text, Min(Max(i, 0), Len(text)) + 1, Min(Max(j, 0), Len(text)))

\* Python's text[i:]
SliceFrom(text, i) == Slice(text, i, Len(text))

\* text[pos:pos+len(value)] == value
OccursAt(text, value, pos) ==
    /\ pos >= 0
    /\ pos + Len(value) <= Len(text)
    /\ SubSeq(text, pos + 1, pos + Len(value)) = value

\* Python's text.find(value, start): the first position >= start, or -1.
Find(text, value, start) ==
    LET hits == {p \in start..(Len(text) - Len(value)) : OccursAt(text, value, p)}
    IN IF hits = {} THEN -1 ELSE CHOOSE p \in hits : \A q \in hits : p <= q

\* Python's  value in text
Contains(text, value) == Find(text, value, 0) # -1

(***************************************************************************)
(* Patterns.  A regex is kept in the form  head tail*  : a sequence of     *)
(* character classes followed by a greedy run over one class.              *)
(*   openai_key: "sk-" and 48 alphanumerics  ->  k [ab]                    *)
(*   file_path: a home prefix, one or more characters that are neither     *)
(*   slash nor whitespace, then any number of slash-led segments           *)
(*                                           ->  H [^/ws] [^ws] ...        *)
(* (the same language: after one character that is neither a slash nor     *)
(* whitespace, every run of non-whitespace is accepted).                   *)
(***************************************************************************)
OpenAIKeyPattern ==
    [name |-> "openai_key",
     head |-> <<{"k"}, Alnum>>,
     tail |-> {},
     template |-> <<"{{OPENAI_API_KEY}}">>]

FilePathPattern ==
    [name |-> "file_path",
     head |-> <<{"H"}, NonSlashNonSpace>>,
     tail |-> NonSpace,
     template |-> <<"/{USER_HOME}/...">>]

_get_default_patterns == <<OpenAIKeyPattern, FilePathPattern>>

\* _compile_patterns: name -> the pattern's own compiled regex
CompiledOf(pats) ==
    [n \in {pats[i].name : i \in 1..Len(pats)} |->
        LET last == CHOOSE i \in 1..Len(pats) :
                        /\ pats[i].name = n
                        /\ \A j \in 1..Len(pats) : pats[j].name = n => j <= i
        IN [head |-> pats[last].head, tail |-> pats[last].tail]]

\* The end of the greedy run of symbols of class cls starting at position i.
RECURSIVE RunEnd(_, _, _)
RunEnd(text, cls, i) ==
    IF i < Len(text) /\ text[i + 1] \in cls THEN RunEnd(text, cls, i + 1) ELSE i

\* re match at position i: the end of the match, or -1.
MatchEnd(rx, text, i) ==
    IF /\ i + Len(rx.head) <= Len(text)
       /\ \A j \in 1..Len(rx.head) : text[i + j] \in rx.head[j]
    THEN RunEnd(text, rx.tail, i + Len(rx.head))
    ELSE -1

\* compiled_pattern.finditer(text): the non-overlapping matches, left to right.
RECURSIVE FindIter(_, _, _)
FindIter(rx, text, i) ==
    IF i >= Len(text) THEN << >>
    ELSE LET e == MatchEnd(rx, text, i)
         IN IF e = -1 THEN FindIter(rx, text, i + 1)
            ELSE <<[start |-> i, end |-> e]>> \o FindIter(rx, text, e)

(***************************************************************************)
(* Placeholders.                                                           *)
(***************************************************************************)
SymbolCode(c) ==
    CASE c = " " -> 1 [] c = "a" -> 2 [] c = "b" -> 3 [] c = "k" -> 4
      [] c = "H" -> 5 [] OTHER -> 6

\* hashlib.sha256(secret_value.encode()).hexdigest()[:8]: a one-way digest cut
\* to a finite range, so distinct values may share it.
RECURSIVE Digest(_, _)
Digest(value, acc) ==
    IF value = << >> THEN acc
    ELSE Digest(Tail(value), (acc * 3 + SymbolCode(Head(value))) % Len(HashSyms))

SecretHash(value) == HashSyms[Digest(value, 0) + 1]

Upper(name) ==
    CASE name = "openai_key" -> "OPENAI_KEY"
      [] name = "file_path" -> "FILE_PATH"
      [] OTHER -> "CUSTOM"

\* "{{" in template and "}}" in template
HasDoubleBraces(template) ==
    \E i \in 1..Len(template) : template[i] \in {"{{OPENAI_API_KEY}}"}

_generate_placeholder(secret_value, pattern_name, template) ==
    IF HasDoubleBraces(template) THEN template
    ELSE <<"{RESOLVE:" \o Upper(pattern_name) \o ":", SecretHash(secret_value), "}">>

(***************************************************************************)
(* Detection in a string.                                                  *)
(***************************************************************************)
DetectedSecret(value, pattern_name, placeholder, start_pos, end_pos) ==
    [value |-> value, pattern_name |-> pattern_name, placeholder |-> placeholder,
     start_pos |-> start_pos, end_pos |-> end_pos]

MatchesOf(pat, rx, text) ==
    LET ms == FindIter(rx, text, 0)
    IN [i \in 1..Len(ms) |->
          LET v == Slice(text, ms[i].start, ms[i].end)
          IN DetectedSecret(v, pat.name,
                 _generate_placeholder(v, pat.name, pat.template),
                 ms[i].start, ms[i].end)]

RECURSIVE DetectFrom(_, _, _, _)
DetectFrom(pats, compiled, text, i) ==
    IF i > Len(pats) THEN << >>
    ELSE LET pat == pats[i]
             rx == IF pat.name \in DOMAIN compiled THEN compiled[pat.name]
                   ELSE [head |-> pat.head, tail |-> pat.tail]
         IN MatchesOf(pat, rx, text) \o DetectFrom(pats, compiled, text, i + 1)

_detect_secrets_in_string(pats, compiled, text) == DetectFrom(pats, compiled, text, 1)

(***************************************************************************)
(* Python dicts keep insertion order: a dict is a sequence of <<key,value>> *)
(* pairs with distinct keys.                                               *)
(***************************************************************************)
DictKeys(d) == {d[i][1] : i \in 1..Len(d)}

DictGet(d, k) == LET i == CHOOSE j \in 1..Len(d) : d[j][1] = k IN d[i][2]

\* d[k] = v
DictSet(d, k, v) ==
    IF k \in DictKeys(d)
    THEN [i \in 1..Len(d) |-> IF d[i][1] = k THEN <<k, v>> ELSE d[i]]
    ELSE Append(d, <<k, v>>)

\* d.update(e)
RECURSIVE DictUpdate(_, _)
DictUpdate(d, e) ==
    IF e = << >> THEN d
    ELSE DictUpdate(DictSet(d, Head(e)[1], Head(e)[2]), Tail(e))

(***************************************************************************)
(* Substitution in a string.                                               *)
(***************************************************************************)
\* The positions the loop  pos = text.find(value, start); start = pos + 1
\* visits, ascending (overlapping occurrences included).
RECURSIVE Occurrences(_, _, _)
Occurrences(text, value, start) ==
    LET pos == Find(text, value, start)
    IN IF pos = -1 THEN << >>
       ELSE <<pos>> \o Occurrences(text, value, pos + 1)

\* The (start, end, placeholder) tuples, in the order the code appends them.
RECURSIVE Replacements(_, _)
Replacements(text, secrets) ==
    IF secrets = << >> THEN << >>
    ELSE LET secret == Head(secrets)
             occ == Occurrences(text, secret.value, 0)
         IN [i \in 1..Len(occ) |->
                [start |-> occ[i], end |-> occ[i] + Len(secret.value),
                 placeholder |-> secret.placeholder]]
            \o Replacements(text, Tail(secrets))

\* placeholders[secret.placeholder] = secret.value, for every secret found in text
RECURSIVE RecordPlaceholders(_, _, _)
RecordPlaceholders(text, secrets, placeholders) ==
    IF secrets = << >> THEN placeholders
    ELSE LET secret == Head(secrets)
         IN RecordPlaceholders(text, Tail(secrets),
                IF Contains(text, secret.value)
                THEN DictSet(placeholders, secret.placeholder, secret.value)
                ELSE placeholders)

\* replacements.sort(key=lambda x: x[0], reverse=True): a stable sort, tuples
\* with the same start keep their order.
RECURSIVE SortByStartDesc(_, _)
SortByStartDesc(reps, p) ==
    IF p < 0 THEN << >>
    ELSE SelectSeq(reps, LAMBDA r : r.start = p) \o SortByStartDesc(reps, p - 1)

\* result = result[:start_pos] + placeholder + result[end_pos:], in turn
RECURSIVE ApplyReplacements(_, _)
ApplyReplacements(result, reps) ==
    IF reps = << >> THEN result
    ELSE LET r == Head(reps)
         IN ApplyReplacements(
                Slice(result, 0, r.start) \o r.placeholder \o SliceFrom(result, r.end),
                Tail(reps))

\* Returns the new text and the placeholders dict the code updates in place.
_replace_secrets_in_string(text, secrets, placeholders) ==
    IF secrets = << >> THEN [text |-> text, placeholders |-> placeholders]
    ELSE [text |-> ApplyReplacements(text,
                       SortByStartDesc(Replacements(text, secrets), Len(text))),
          placeholders |-> RecordPlaceholders(text, secrets, placeholders)]

_find_relevant_secrets(text, secrets) ==
    SelectSeq(secrets, LAMBDA secret : Contains(text, secret.value))

\* Python's text.replace(old, new) for a non-empty old: left to right, no overlap.
RECURSIVE StrReplace(_, _, _)
StrReplace(text, old, new) ==
    IF text = << >> THEN << >>
    ELSE IF OccursAt(text, old, 0)
         THEN new \o StrReplace(SliceFrom(text, Len(old)), old, new)
         ELSE <<Head(text)>> \o StrReplace(Tail(text), old, new)

(***************************************************************************)
(* Values.  A value is a string, a dict (its values in key order; keys are  *)
(* never scanned and are kept as they are, so a dict is known by the        *)
(* sequence of its values), a list, a tuple, an object with a __dict__      *)
(* (its attribute values), or anything else (a number, None).               *)
(***************************************************************************)
Str(text) == [kind |-> "str", text |-> text, items |-> << >>]

Dict(items) == [kind |-> "dict", text |-> << >>, items |-> items]

List(items) == [kind |-> "list", text |-> << >>, items |-> items]

Tuple(items) == [kind |-> "tuple", text |-> << >>, items |-> items]

Object(items) == [kind |-> "object", text |-> << >>, items |-> items]

Other == [kind |-> "other", text |-> << >>, items |-> << >>]

(***************************************************************************)
(* Detection in a value.                                                   *)
(***************************************************************************)
RECURSIVE _detect_secrets(_, _, _)
RECURSIVE _detect_secrets_in_dict(_, _, _)
RECURSIVE _detect_secrets_in_list(_, _, _)

\* Variant: a detector with a false positive, reporting the symbol "a" as a
\* key whatever the data.
_detect_secrets_false_positive(pats, compiled, data) ==
    <<DetectedSecret(<<"a">>, "openai_key", <<"{{OPENAI_API_KEY}}">>, 0, 1)>>

_detect_secrets(pats, compiled, data) ==
    CASE data.kind = "str" -> _detect_secrets_in_string(pats, compiled, data.text)
      [] data.kind = "dict" -> _detect_secrets_in_dict(pats, compiled, data.items)
      [] data.kind \in {"list", "tuple"} ->
            _detect_secrets_in_list(pats, compiled, data.items)
      [] data.kind = "object" -> _detect_secrets_in_dict(pats, compiled, data.items)
      [] OTHER -> << >>

\* values: the dict's values in order
_detect_secrets_in_dict(pats, compiled, values) ==
    IF values = << >> THEN << >>
    ELSE LET value == Head(values)
             found == CASE value.kind = "str" ->
                             _detect_secrets_in_string(pats, compiled, value.text)
                        [] value.kind \in {"dict", "list", "tuple"} ->
                             _detect_secrets(pats, compiled, value)
                        [] OTHER -> << >>
         IN found \o _detect_secrets_in_dict(pats, compiled, Tail(values))

_detect_secrets_in_list(pats, compiled, items) ==
    IF items = << >> THEN << >>
    ELSE _detect_secrets(pats, compiled, Head(items))
            \o _detect_secrets_in_list(pats, compiled, Tail(items))

(***************************************************************************)
(* Substitution in a value.                                                *)
(***************************************************************************)
RECURSIVE _replace_with_placeholders(_, _)
RECURSIVE ReplaceItems(_, _, _, _)

\* The loop over a dict's values or a list's items: done holds the sanitized
\* items so far, placeholders the dict shared by the whole loop.
ReplaceItems(items, secrets, done, placeholders) ==
    IF items = << >> THEN [items |-> done, placeholders |-> placeholders]
    ELSE LET item == Head(items)
         IN CASE item.kind = "str" ->
                   LET relevant == _find_relevant_secrets(item.text, secrets)
                       r == _replace_secrets_in_string(item.text, relevant, placeholders)
                   IN IF relevant # << >>
                      THEN ReplaceItems(Tail(items), secrets,
                               Append(done, Str(r.text)), r.placeholders)
                      ELSE ReplaceItems(Tail(items), secrets,
                               Append(done, item), placeholders)
              [] item.kind \in {"dict", "list", "tuple"} ->
                   LET n == _replace_with_placeholders(item, secrets)
                   IN ReplaceItems(Tail(items), secrets, Append(done, n.data),
                          DictUpdate(placeholders, n.placeholders))
              [] OTHER ->
                   ReplaceItems(Tail(items), secrets, Append(done, item), placeholders)

\* Returns (sanitized data, placeholders).
_replace_with_placeholders(data, secrets) ==
    IF secrets = << >> THEN [data |-> data, placeholders |-> << >>]
    ELSE CASE data.kind = "str" ->
                LET r == _replace_secrets_in_string(data.text, secrets, << >>)
                IN [data |-> Str(r.text), placeholders |-> r.placeholders]
           [] data.kind = "dict" ->
                LET r == ReplaceItems(data.items, secrets, << >>, << >>)
                IN [data |-> Dict(r.items), placeholders |-> r.placeholders]
           [] data.kind \in {"list", "tuple"} ->
                LET r == ReplaceItems(data.items, secrets, << >>, << >>)
                IN [data |-> List(r.items), placeholders |-> r.placeholders]
           [] OTHER -> [data |-> data, placeholders |-> << >>]

(***************************************************************************)
(* Resolution: placeholders back to real values.                           *)
(***************************************************************************)
\* for placeholder, real_value in placeholder_map.items(): ...
RECURSIVE ResolveString(_, _, _)
ResolveString(text, placeholder_map, count) ==
    IF placeholder_map = << >> THEN [text |-> text, count |-> count]
    ELSE LET placeholder == Head(placeholder_map)[1]
             real_value == Head(placeholder_map)[2]
         IN IF Contains(text, placeholder)
            THEN ResolveString(StrReplace(text, placeholder, real_value),
                     Tail(placeholder_map), count + 1)
            ELSE ResolveString(text, Tail(placeholder_map), count)

RECURSIVE _resolve_placeholders(_, _)
RECURSIVE ResolveItems(_, _, _, _)

ResolveItems(items, placeholder_map, done, count) ==
    IF items = << >> THEN [items |-> done, count |-> count]
    ELSE LET r == _resolve_placeholders(Head(items), placeholder_map)
         IN ResolveItems(Tail(items), placeholder_map,
                Append(done, r.data), count + r.resolved_count)

\* Returns (resolved data, resolved_count).
_resolve_placeholders(data, placeholder_map) ==
    CASE data.kind = "str" ->
            LET r == ResolveString(data.text, placeholder_map, 0)
            IN [data |-> Str(r.text), resolved_count |-> r.count]
      [] data.kind = "dict" ->
            LET r == ResolveItems(data.items, placeholder_map, << >>, 0)
            IN [data |-> Dict(r.items), resolved_count |-> r.count]
      [] data.kind \in {"list", "tuple"} ->
            LET r == ResolveItems(data.items, placeholder_map, << >>, 0)
            IN [data |-> List(r.items), resolved_count |-> r.count]
      [] OTHER -> [data |-> data, resolved_count |-> 0]

(***************************************************************************)
(* Response scrubbing: real values back to placeholders.                   *)
(***************************************************************************)
\* Variant: only the first occurrence of each real value is replaced.
RECURSIVE ScrubString_first_occurrence(_, _)
ScrubString_first_occurrence(text, placeholder_map) ==
    IF placeholder_map = << >> THEN text
    ELSE LET placeholder == Head(placeholder_map)[1]
             real_value == Head(placeholder_map)[2]
             pos == Find(text, real_value, 0)
         IN ScrubString_first_occurrence(
                IF pos # -1
                THEN Slice(text, 0, pos) \o placeholder
                         \o SliceFrom(text, pos + Len(real_value))
                ELSE text,
                Tail(placeholder_map))

RECURSIVE ScrubString(_, _)
ScrubString(text, placeholder_map) ==
    IF placeholder_map = << >> THEN text
    ELSE LET placeholder == Head(placeholder_map)[1]
             real_value == Head(placeholder_map)[2]
         IN ScrubString(IF Contains(text, real_value)
                        THEN StrReplace(text, real_value, placeholder)
                        ELSE text,
                        Tail(placeholder_map))

RECURSIVE _replace_real_values_with_placeholders(_, _)
_replace_real_values_with_placeholders(data, placeholder_map) ==
    CASE data.kind = "str" -> Str(ScrubString(data.text, placeholder_map))
      [] data.kind = "dict" ->
            Dict([i \in 1..Len(data.items) |->
                _replace_real_values_with_placeholders(data.items[i], placeholder_map)])
      [] data.kind \in {"list", "tuple"} ->
            List([i \in 1..Len(data.items) |->
                _replace_real_values_with_placeholders(data.items[i], placeholder_map)])
      [] OTHER -> data

(***************************************************************************)
(* The engine.                                                             *)
(***************************************************************************)
VARIABLES
    engine,     \* the TemporalIsolationEngine: max_cache_size, context_cache (the
                \* SanitizedData, oldest first), last_access_times (context id ->
                \* time), performance_metrics (the counters), cleanup_task (whether
                \* the background task runs), and uuids, the number of uuid4
                \* context ids generated so far
    now,        \* time.time()
    calls,      \* how many public calls were made (bounds the run)
    ret,        \* the outcome of the last public call
    san,        \* the outcome of the last sanitize_for_ai call
    hist,       \* history: per context id, the logical time of its last use and
                \* the maps stored under it
    input,      \* the value a run on one input works on
    pc,         \* the phase of a run on one input
    tasks       \* the sanitize_for_ai calls in flight, per task

vars == <<engine, now, calls, ret, san, hist, input, pc, tasks>>

\* Bounds of the model.
MaxCacheSize == 2

MaxCacheAge == 0

MaxTime == 1

MaxCalls == 3

MaxLruCalls == 4

MaxStrLen == 6

NoId == "None"

UuidTable == <<"uuid-1", "uuid-2", "uuid-3", "uuid-4", "uuid-5", "uuid-6", "uuid-7",
               "uuid-8", "uuid-9">>

\* str(uuid.uuid4()): a fresh id each time
Uuid4(n) == UuidTable[n + 1]

CallerIds == {"ctx-A"}

IssuedIds == {UuidTable[i] : i \in 1..engine.uuids}

SanitizedData(data, placeholders, context_id, created_at) ==
    [data |-> data, placeholders |-> placeholders, context_id |-> context_id,
     created_at |-> created_at]

CacheIds(c) == {c[i].context_id : i \in 1..Len(c)}

CacheGet(c, id) == c[CHOOSE i \in 1..Len(c) : c[i].context_id = id]

CacheDel(c, id) == SelectSeq(c, LAMBDA e : e.context_id # id)

Restrict(f, S) == [x \in S |-> f[x]]

Put(f, k, v) == [x \in (DOMAIN f) \cup {k} |-> IF x = k THEN v ELSE f[x]]

\* while len(self._context_cache) > self._max_cache_size: popitem(last=False)
\* Variant: the size test lets one context too many stay.
_enforce_cache_size_limit_one_over(c, la, max) ==
    LET drop == IF Len(c) > max + 1 THEN Len(c) - max - 1 ELSE 0
        kept == SubSeq(c, drop + 1, Len(c))
    IN [cache |-> kept,
        last_access |-> Restrict(la, (DOMAIN la) \ {c[i].context_id : i \in 1..drop}),
        evicted |-> [i \in 1..drop |-> c[i].context_id]]

\* Variant: the size limit pops the newest end instead of the oldest.
_enforce_cache_size_limit_pop_newest(c, la, max) ==
    LET drop == IF Len(c) > max THEN Len(c) - max ELSE 0
        kept == SubSeq(c, 1, Len(c) - drop)
    IN [cache |-> kept,
        last_access |-> Restrict(la, (DOMAIN la) \
                            {c[i].context_id : i \in (Len(c) - drop + 1)..Len(c)}),
        evicted |-> [i \in 1..drop |-> c[Len(c) - i + 1].context_id]]

_enforce_cache_size_limit(c, la, max) ==
    LET drop == IF Len(c) > max THEN Len(c) - max ELSE 0
        kept == SubSeq(c, drop + 1, Len(c))
    IN [cache |-> kept,
        last_access |-> Restrict(la, (DOMAIN la) \ {c[i].context_id : i \in 1..drop}),
        evicted |-> [i \in 1..drop |-> c[i].context_id]]

\* Variant: a store under an id already cached keeps the cached context.
_cache_context_keep_existing(c, la, max, context_id, context, t) ==
    IF context_id \in CacheIds(c)
    THEN [cache |-> c, last_access |-> la, evicted |-> << >>]
    ELSE [cache |-> Append(c, context), last_access |-> Put(la, context_id, t),
          evicted |-> << >>]

_cache_context(c, la, max, context_id, context, t) ==
    _enforce_cache_size_limit(Append(CacheDel(c, context_id), context),
                              Put(la, context_id, t), max)

\* Variant: a hit leaves the context where it is in the order.
_get_cached_context_no_move(c, la, m, context_id, t) ==
    IF context_id \in CacheIds(c)
    THEN [found |-> TRUE,
          context |-> CacheGet(c, context_id),
          cache |-> c,
          last_access |-> Put(la, context_id, t),
          metrics |-> [m EXCEPT !.cache_hits = @ + 1]]
    ELSE [found |-> FALSE,
          context |-> SanitizedData(Other, << >>, NoId, 0),
          cache |-> c,
          last_access |-> la,
          metrics |-> [m EXCEPT !.cache_misses = @ + 1]]

\* Variant: a miss is not counted.
_get_cached_context_miss_uncounted(c, la, m, context_id, t) ==
    IF context_id \in CacheIds(c)
    THEN [found |-> TRUE,
          context |-> CacheGet(c, context_id),
          cache |-> Append(CacheDel(c, context_id), CacheGet(c, context_id)),
          last_access |-> Put(la, context_id, t),
          metrics |-> [m EXCEPT !.cache_hits = @ + 1]]
    ELSE [found |-> FALSE,
          context |-> SanitizedData(Other, << >>, NoId, 0),
          cache |-> c,
          last_access |-> la,
          metrics |-> m]

\* The lookup: a hit is counted, moved to the end and its access time set;
\* a miss is counted.
_get_cached_context(c, la, m, context_id, t) ==
    IF context_id \in CacheIds(c)
    THEN [found |-> TRUE,
          context |-> CacheGet(c, context_id),
          cache |-> Append(CacheDel(c, context_id), CacheGet(c, context_id)),
          last_access |-> Put(la, context_id, t),
          metrics |-> [m EXCEPT !.cache_hits = @ + 1]]
    ELSE [found |-> FALSE,
          context |-> SanitizedData(Other, << >>, NoId, 0),
          cache |-> c,
          last_access |-> la,
          metrics |-> [m EXCEPT !.cache_misses = @ + 1]]

Expired(context, t) == t - context.created_at > MaxCacheAge

_clean_expired_cache(c, la, t) ==
    [cache |-> SelectSeq(c, LAMBDA e : ~Expired(e, t)),
     last_access |->
        Restrict(la, (DOMAIN la) \ {c[i].context_id : i \in {j \in 1..Len(c) : Expired(c[j], t)}})]

get_cache_stats(c, max) ==
    [cached_contexts |-> Len(c), max_cache_size |-> max]

(***************************************************************************)
(* Input validation.  sys.getsizeof is shallow: the size of the object     *)
(* itself (a string's characters, a container's slots), not of what a      *)
(* container holds.  Sizes are counted in symbols and slots.               *)
(***************************************************************************)
MaxDataSize == 8

MaxStringLength == 6

GetSizeOf(data) ==
    CASE data.kind = "str" -> Len(data.text)
      [] data.kind \in {"dict", "list", "tuple"} -> Len(data.items)
      [] OTHER -> 1

\* TRUE when no string reachable from data is longer than the limit.
RECURSIVE _validate_string_lengths(_)
_validate_string_lengths(data) ==
    CASE data.kind = "str" -> Len(data.text) <= MaxStringLength
      [] data.kind \in {"dict", "list", "tuple", "object"} ->
            \A i \in 1..Len(data.items) : _validate_string_lengths(data.items[i])
      [] OTHER -> TRUE

\* TRUE when the input is accepted.
_validate_input_size(data) ==
    /\ GetSizeOf(data) <= MaxDataSize
    /\ _validate_string_lengths(data)

(***************************************************************************)
(* The public operations, as functions of the engine e at time t.  Each    *)
(* returns the engine after the call and the call's outcome.               *)
(***************************************************************************)
Outcome(op, context_id, arg) ==
    [op |-> op, status |-> "ok", context_id |-> context_id, arg |-> arg,
     data |-> Other, placeholders |-> << >>, resolved_count |-> 0,
     hit |-> FALSE, stored_id |-> NoId, created_at |-> 0, evicted |-> << >>,
     cleared |-> FALSE, count |-> 0, at |-> 0]

\* Variant: the violation is raised before the context is stored.
SanitizeCached_raise_before_store(e1, t, context_id, slow, out, detected, r, c) ==
    IF slow
    THEN [engine |-> [e1 EXCEPT !.performance_metrics.performance_violations = @ + 1],
          ret |-> [out EXCEPT !.status = "PerformanceError"]]
    ELSE [engine |-> [e1 EXCEPT
                        !.context_cache = c.cache,
                        !.last_access_times = c.last_access,
                        !.performance_metrics =
                            [@ EXCEPT !.sanitization_calls = @ + 1,
                                      !.secrets_detected = @ + detected]],
          ret |-> [out EXCEPT
                     !.data = r.data, !.placeholders = r.placeholders,
                     !.stored_id = context_id, !.created_at = t,
                     !.evicted = c.evicted]]

\* sanitize_for_ai from the cache store on: c is what _cache_context gave
\* for the SanitizedData made of r, the data with its placeholders, and
\* detected counts the secrets.
\* slow: the measured duration exceeded the threshold
SanitizeCached(e1, t, context_id, slow, out, detected, r, c) ==
    [engine |-> [e1 EXCEPT
                    !.context_cache = c.cache,
                    !.last_access_times = c.last_access,
                    !.performance_metrics =
                        [@ EXCEPT
                            !.sanitization_calls = @ + 1,
                            !.secrets_detected = @ + detected,
                            !.performance_violations = IF slow THEN @ + 1 ELSE @]],
     ret |-> [out EXCEPT
                !.status = IF slow THEN "PerformanceError" ELSE "ok",
                !.data = r.data, !.placeholders = r.placeholders,
                !.stored_id = context_id, !.created_at = t,
                !.evicted = c.evicted]]

\* sanitize_for_ai from the substitution on: r is what
\* _replace_with_placeholders gave
SanitizeReplaced(e1, t, context_id, slow, out, detected, r) ==
    SanitizeCached(e1, t, context_id, slow, out, detected, r,
        _cache_context(e1.context_cache, e1.last_access_times, e1.max_cache_size,
                       context_id,
                       SanitizedData(r.data, r.placeholders, context_id, t), t))

\* sanitize_for_ai from the detection on: no secret, no context
SanitizeDetected(e1, t, data, context_id, slow, out, detected_secrets) ==
    IF detected_secrets = << >>
    THEN [engine |-> e1, ret |-> [out EXCEPT !.data = data]]
    ELSE SanitizeReplaced(e1, t, context_id, slow, out, Len(detected_secrets),
                          _replace_with_placeholders(data, detected_secrets))

\* sanitize_for_ai from the expiry cleanup on: cleaned is what
\* _clean_expired_cache gave
SanitizeCleaned(e0, t, data, context_id, slow, out, cleaned) ==
    SanitizeDetected([e0 EXCEPT !.cleanup_task = TRUE,
                                !.context_cache = cleaned.cache,
                                !.last_access_times = cleaned.last_access],
                     t, data, context_id, slow, out,
                     _detect_secrets(_get_default_patterns,
                                     CompiledOf(_get_default_patterns), data))

\* sanitize_for_ai once the context id is known: e0 is the engine with the
\* uuid taken
SanitizeValidated(e0, t, data, context_id, slow, out) ==
    IF ~_validate_input_size(data)
    THEN [engine |-> e0, ret |-> [out EXCEPT !.status = "SanitizationError"]]
    ELSE SanitizeCleaned(e0, t, data, context_id, slow, out,
            _clean_expired_cache(e0.context_cache, e0.last_access_times, t))

sanitize_for_ai(e, t, data, context_id_arg, slow) ==
    IF context_id_arg = NoId
    THEN SanitizeValidated([e EXCEPT !.uuids = @ + 1], t, data, Uuid4(e.uuids), slow,
                           Outcome("sanitize_for_ai", Uuid4(e.uuids), data))
    ELSE SanitizeValidated(e, t, data, context_id_arg, slow,
                           Outcome("sanitize_for_ai", context_id_arg, data))

resolve_for_execution(e, t, data, context_id, slow) ==
    LET g == _get_cached_context(e.context_cache, e.last_access_times,
                                 e.performance_metrics, context_id, t)
        out == Outcome("resolve_for_execution", context_id, data)
    IN IF ~g.found
       THEN [engine |-> [e EXCEPT !.performance_metrics = g.metrics],
             ret |-> [out EXCEPT !.status = "ContextError"]]
       ELSE
       LET r == _resolve_placeholders(data, g.context.placeholders)
           m == [g.metrics EXCEPT
                    !.resolution_calls = @ + 1,
                    !.performance_violations = IF slow THEN @ + 1 ELSE @]
       IN [engine |-> [e EXCEPT !.context_cache = g.cache,
                                !.last_access_times = g.last_access,
                                !.performance_metrics = m],
           ret |-> [out EXCEPT
                    !.status = IF slow THEN "PerformanceError" ELSE "ok",
                    !.data = r.data, !.resolved_count = r.resolved_count,
                    !.placeholders = g.context.placeholders,
                    !.hit = TRUE, !.created_at = g.context.created_at]]

\* Variant: the fallback sanitizes under the id that was not found.
sanitize_response_reuse_id(e, t, response, context_id, slow) ==
    LET g == _get_cached_context(e.context_cache, e.last_access_times,
                                 e.performance_metrics, context_id, t)
        out == Outcome("sanitize_response", context_id, response)
    IN IF ~g.found
       THEN \* No context found, scan for secrets anyway
            LET f == sanitize_for_ai([e EXCEPT !.performance_metrics = g.metrics],
                                     t, response, context_id, slow)
            IN [engine |-> f.engine,
                ret |-> [f.ret EXCEPT !.op = "sanitize_response",
                                      !.context_id = context_id]]
       ELSE [engine |-> [e EXCEPT !.context_cache = g.cache,
                                  !.last_access_times = g.last_access,
                                  !.performance_metrics = g.metrics],
             ret |-> [out EXCEPT
                      !.data = _replace_real_values_with_placeholders(
                                   response, g.context.placeholders),
                      !.placeholders = g.context.placeholders,
                      !.hit = TRUE, !.created_at = g.context.created_at]]

sanitize_response(e, t, response, context_id, slow) ==
    LET g == _get_cached_context(e.context_cache, e.last_access_times,
                                 e.performance_metrics, context_id, t)
        out == Outcome("sanitize_response", context_id, response)
    IN IF ~g.found
       THEN \* No context found, scan for secrets anyway
            LET f == sanitize_for_ai([e EXCEPT !.performance_metrics = g.metrics],
                                     t, response, NoId, slow)
            IN [engine |-> f.engine,
                ret |-> [f.ret EXCEPT !.op = "sanitize_response",
                                      !.context_id = context_id]]
       ELSE [engine |-> [e EXCEPT !.context_cache = g.cache,
                                  !.last_access_times = g.last_access,
                                  !.performance_metrics = g.metrics],
             ret |-> [out EXCEPT
                      !.data = _replace_real_values_with_placeholders(
                                   response, g.context.placeholders),
                      !.placeholders = g.context.placeholders,
                      !.hit = TRUE, !.created_at = g.context.created_at]]

\* Variant: the context stays cached; only its access time goes.
clear_context_keep_cached(e, context_id) ==
    [engine |-> [e EXCEPT
                    !.last_access_times = Restrict(@, (DOMAIN @) \ {context_id})],
     ret |-> [Outcome("clear_context", context_id, Other) EXCEPT
                    !.cleared = context_id \in CacheIds(e.context_cache)]]

clear_context(e, context_id) ==
    [engine |-> [e EXCEPT
                    !.context_cache = CacheDel(@, context_id),
                    !.last_access_times = Restrict(@, (DOMAIN @) \ {context_id})],
     ret |-> [Outcome("clear_context", context_id, Other) EXCEPT
                    !.cleared = context_id \in CacheIds(e.context_cache)]]

clear_all_contexts(e) ==
    [engine |-> [e EXCEPT !.context_cache = << >>,
                          !.last_access_times = Restrict(@, {})],
     ret |-> [Outcome("clear_all_contexts", NoId, Other) EXCEPT
                    !.count = Len(e.context_cache)]]

\* One round of _background_cleanup_loop after its sleep.
_background_cleanup_loop(e, t) ==
    LET cleaned == _clean_expired_cache(e.context_cache, e.last_access_times, t)
        c == _enforce_cache_size_limit(cleaned.cache, cleaned.last_access,
                                       e.max_cache_size)
    IN [e EXCEPT !.context_cache = c.cache, !.last_access_times = c.last_access]

(***************************************************************************)
(* History kept beside the engine, to state the properties: for every      *)
(* context id, the number of the call that last used it (a store or a      *)
(* successful lookup), the map stored under it when it entered the cache    *)
(* and the map of the latest store.                                        *)
(***************************************************************************)
EmptyFn == [x \in {} |-> 0]

HistInit ==
    [use |-> EmptyFn, by |-> EmptyFn, first |-> EmptyFn, last |-> EmptyFn,
     removed |-> FALSE]

Range(seq) == {seq[i] : i \in 1..Len(seq)}

\* Whether a step from engine e to engine f took a context out of the cache
\* other than by the size limit (evicted: the ids the size limit evicted).
RemovedOtherwise(e, f, evicted) ==
    (CacheIds(e.context_cache) \ CacheIds(f.context_cache)) \ Range(evicted) # {}

\* e: the engine before the call, f: the engine after it, r: the call's
\* outcome, n: the call's number
HistAfter(h, e, f, t, r, n) ==
    LET h0 == [h EXCEPT !.removed = @ \/ RemovedOtherwise(e, f, r.evicted)]
    IN IF r.stored_id # NoId
       THEN LET live == CacheIds(_clean_expired_cache(e.context_cache,
                                                      e.last_access_times, t).cache)
            IN [h0 EXCEPT !.use = Put(@, r.stored_id, n),
                          !.by = Put(@, r.stored_id, "store"),
                          !.last = Put(@, r.stored_id, r.placeholders),
                          !.first = IF r.stored_id \in live THEN @
                                    ELSE Put(@, r.stored_id, r.placeholders)]
       ELSE IF r.hit
            THEN [h0 EXCEPT !.use = Put(@, r.context_id, n),
                            !.by = Put(@, r.context_id, "lookup")]
            ELSE h0

(***************************************************************************)
(* Spec: one engine, its public operations called one after another (the   *)
(* operations hold no suspension point), the clock and the background      *)
(* cleanup.                                                                *)
(***************************************************************************)
MetricsInit ==
    [sanitization_calls |-> 0, resolution_calls |-> 0, cache_hits |-> 0,
     cache_misses |-> 0, secrets_detected |-> 0, performance_violations |-> 0]

EngineInit(max) ==
    [max_cache_size |-> max, context_cache |-> << >>, last_access_times |-> EmptyFn,
     performance_metrics |-> MetricsInit, cleanup_task |-> FALSE, uuids |-> 0]

NoOutcome == Outcome("none", NoId, Other)

NoTasks == [x \in {} |-> 0]

Payloads ==
    {Str(<<"a">>), Str(<<"k", "a">>), Str(<<"k", "b">>)}

Responses == {Str(<<"k", "a", "b">>)}

KnownIds == IssuedIds \cup CallerIds \cup {"never-issued"}

Init ==
    /\ engine = EngineInit(MaxCacheSize)
    /\ now = 0
    /\ calls = 0
    /\ ret = NoOutcome
    /\ san = NoOutcome
    /\ hist = HistInit
    /\ input = Other
    /\ pc = "engine"
    /\ tasks = NoTasks

\* What every public call does to the variables, given its result; at most
\* bound calls are made.
Called(result, bound) ==
    /\ calls < bound
    /\ engine' = result.engine
    /\ ret' = [result.ret EXCEPT !.at = now]
    /\ calls' = calls + 1
    /\ hist' = HistAfter(hist, engine, result.engine, now, result.ret, calls + 1)
    /\ UNCHANGED <<now, san, input, pc, tasks>>

Sanitize ==
    \E data \in Payloads, context_id \in {NoId} \cup CallerIds, slow \in BOOLEAN :
        Called(sanitize_for_ai(engine, now, data, context_id, slow), MaxCalls)

\* The caller resolves the sanitized data it holds for the id.
DataFor(context_id) ==
    IF context_id \in CacheIds(engine.context_cache)
    THEN CacheGet(engine.context_cache, context_id).data
    ELSE Str(<<"{{OPENAI_API_KEY}}">>)

Resolve ==
    \E context_id \in KnownIds, slow \in BOOLEAN :
        Called(resolve_for_execution(engine, now, DataFor(context_id), context_id, slow),
               MaxCalls)

SanitizeResponse ==
    \E response \in Responses, context_id \in KnownIds, slow \in BOOLEAN :
        Called(sanitize_response(engine, now, response, context_id, slow), MaxCalls)

ClearContext ==
    \E context_id \in KnownIds :
        Called(clear_context(engine, context_id), MaxCalls)

ClearAllContexts == Called(clear_all_contexts(engine), MaxCalls)

BackgroundCleanup ==
    /\ engine.cleanup_task
    /\ engine' = _background_cleanup_loop(engine, now)
    /\ hist' = [hist EXCEPT !.removed = @ \/ RemovedOtherwise(engine, engine', << >>)]
    /\ UNCHANGED <<now, calls, ret, san, input, pc, tasks>>

Tick ==
    /\ now < MaxTime
    /\ now' = now + 1
    /\ UNCHANGED <<engine, calls, ret, san, hist, input, pc, tasks>>

Next ==
    \/ Sanitize
    \/ Resolve
    \/ SanitizeResponse
    \/ ClearContext
    \/ ClearAllContexts
    \/ BackgroundCleanup
    \/ Tick

Spec == Init /\ [][Next]_vars

(***************************************************************************)
(* SpecLRU: stores and lookups only, on a longer run, for the order of     *)
(* eviction.                                                               *)
(***************************************************************************)
SecretPayloads == {Str(<<"k", "a">>), Str(<<"k", "b">>)}

LruStore ==
    \E data \in SecretPayloads, context_id \in {NoId} \cup CallerIds :
        Called(sanitize_for_ai(engine, now, data, context_id, FALSE), MaxLruCalls)

LruLookup ==
    \E context_id \in KnownIds :
        Called(resolve_for_execution(engine, now, DataFor(context_id), context_id, FALSE),
               MaxLruCalls)

NextLRU == LruStore \/ LruLookup

\* an engine of any size up to MaxCacheSize
InitLRU ==
    /\ engine \in {EngineInit(max) : max \in 1..MaxCacheSize}
    /\ now = 0
    /\ calls = 0
    /\ ret = NoOutcome
    /\ san = NoOutcome
    /\ hist = HistInit
    /\ input = Other
    /\ pc = "engine"
    /\ tasks = NoTasks

SpecLRU == InitLRU /\ [][NextLRU]_vars

(***************************************************************************)
(* SpecRT: one value is sanitized and the sanitized data is resolved with  *)
(* the returned context id.  The value is any string of at most MaxStrLen  *)
(* symbols, one string over the length limit, or a container.              *)
(***************************************************************************)
RECURSIVE StringsUpTo(_)
StringsUpTo(n) ==
    IF n = 0 THEN {<< >>}
    ELSE LET shorter == StringsUpTo(n - 1)
         IN shorter \cup {Append(text, c) : text \in shorter, c \in InSymbols}

TooLong == [i \in 1..(MaxStringLength + 1) |-> "a"]

Leaves ==
    {Other, Str(<<"a">>), Str(<<"k", "a">>), Str(<<"k", "b">>),
     Str(<<"k", "a", " ", "b">>)}

ItemLists(S) == {<<x>> : x \in S} \cup {<<x, y>> : x \in S, y \in S}

Make(kind, items) == [kind |-> kind, text |-> << >>, items |-> items]

ContainerKinds == {"dict", "list", "tuple", "object"}

Containers ==
    LET flat == {Make(kind, items) : kind \in ContainerKinds, items \in ItemLists(Leaves)}
        nested == {Make(kind, <<c>>) : kind \in ContainerKinds, c \in flat}
    IN flat \cup nested

\* A list of strings, each within the string limit, that together exceed the
\* data size limit.
Bulky ==
    Make("list", <<Str([i \in 1..(MaxStringLength - 1) |-> "a"]),
                   Str([i \in 1..(MaxDataSize + 2 - MaxStringLength) |-> "b"])>>)

\* A list of a home path whose last segment reads as the key placeholder,
\* and a key.
PathNamingPlaceholder ==
    Make("list", <<Str(<<"H", "{{OPENAI_API_KEY}}">>), Str(<<"k", "a">>)>>)

RTInputs ==
    {Str(text) : text \in StringsUpTo(MaxStrLen) \cup {TooLong}} \cup Containers
        \cup {Bulky, Make("dict", <<Str(<<"k", "a">>), Str(TooLong)>>),
              PathNamingPlaceholder}

InitRT ==
    /\ engine = EngineInit(MaxCacheSize)
    /\ now = 0
    /\ calls = 0
    /\ ret = NoOutcome
    /\ san = NoOutcome
    /\ hist = HistInit
    /\ input \in RTInputs
    /\ pc = "start"
    /\ tasks = NoTasks

\* What the call under test does to the variables, given its result.
Sanitized(result) ==
    /\ engine' = result.engine
    /\ san' = result.ret
    /\ hist' = HistAfter(hist, engine, result.engine, now, result.ret, calls + 1)
    /\ calls' = calls + 1
    /\ pc' = "sanitized"
    /\ UNCHANGED <<now, ret, input, tasks>>

Resolved(result) ==
    /\ engine' = result.engine
    /\ ret' = result.ret
    /\ hist' = HistAfter(hist, engine, result.engine, now, result.ret, calls + 1)
    /\ calls' = calls + 1
    /\ pc' = "resolved"
    /\ UNCHANGED <<now, san, input, tasks>>

\* snapshot = await engine.sanitize_for_ai(input)
RTSanitize ==
    /\ pc = "start"
    /\ Sanitized(sanitize_for_ai(engine, now, input, NoId, FALSE))

\* await engine.resolve_for_execution(snapshot.data, snapshot.context_id);
\* there is no snapshot when sanitize_for_ai raised
RTResolve ==
    /\ pc = "sanitized"
    /\ san.status = "ok"
    /\ Resolved(resolve_for_execution(engine, now, san.data, san.context_id, FALSE))

\* What the caller may build from the sanitized data before resolving it: a
\* value that holds it twice, and a string that repeats its text.
Commands(data) ==
    {List(<<data, data>>)}
        \cup (IF data.kind = "str"
              THEN {Str(data.text \o <<" ">> \o data.text)} ELSE {})

\* await engine.resolve_for_execution(command, snapshot.context_id)
RTResolveCommand ==
    /\ pc = "sanitized"
    /\ san.status = "ok"
    /\ \E data \in Commands(san.data) :
        \E result \in {resolve_for_execution(engine, now, data, san.context_id, FALSE)} :
            /\ engine' = result.engine
            /\ ret' = result.ret
            /\ hist' = HistAfter(hist, engine, result.engine, now, result.ret, calls + 1)
            /\ calls' = calls + 1
            /\ pc' = "executed"
            /\ UNCHANGED <<now, san, input, tasks>>

NextRT == RTSanitize \/ RTResolve \/ RTResolveCommand

SpecRT == InitRT /\ [][NextRT]_vars

(***************************************************************************)
(* SpecConc: two callers on one engine, each sanitizing its own payload    *)
(* and then resolving the sanitized data with the id it was given.  The    *)
(* callers interleave between the statements of sanitize_for_ai and of     *)
(* resolve_for_execution; what runs under the cache lock is one step.      *)
(***************************************************************************)
TaskIds == {"t1", "t2"}

ConcPayloads ==
    {Str(<<"a">>), Str(<<"k", "a">>), Str(<<"k", "b">>), Str(<<"k", "b", " ", "a">>)}

TaskInit(data) ==
    [pc |-> "begin", data |-> data, context_id |-> NoId, detected |-> << >>,
     sanitized |-> Other, placeholders |-> << >>, context |-> << >>,
     out |-> Other, status |-> "running"]

InitConc ==
    /\ engine = EngineInit(MaxCacheSize)
    /\ now = 0
    /\ calls = 0
    /\ ret = NoOutcome
    /\ san = NoOutcome
    /\ hist = HistInit
    /\ input = Other
    /\ pc = "tasks"
    /\ tasks \in [TaskIds -> {TaskInit(data) : data \in ConcPayloads}]

ConcUnchanged == UNCHANGED <<now, calls, ret, san, hist, input, pc>>

\* context_id = context_id or str(uuid.uuid4()); _validate_input_size;
\* _start_background_cleanup
ConcBegin(t) ==
    /\ tasks[t].pc = "begin"
    /\ tasks' = [tasks EXCEPT
                   ![t].context_id = Uuid4(engine.uuids),
                   ![t].status = IF _validate_input_size(tasks[t].data)
                                 THEN "running" ELSE "SanitizationError",
                   ![t].pc = IF _validate_input_size(tasks[t].data)
                             THEN "clean" ELSE "done"]
    /\ engine' = [engine EXCEPT
                   !.uuids = @ + 1,
                   !.cleanup_task = @ \/ _validate_input_size(tasks[t].data)]
    /\ ConcUnchanged

Cleaned(t, cleaned) ==
    /\ engine' = [engine EXCEPT !.context_cache = cleaned.cache,
                                !.last_access_times = cleaned.last_access]
    /\ tasks' = [tasks EXCEPT ![t].pc = "detect"]
    /\ ConcUnchanged

\* await self._clean_expired_cache()
ConcClean(t) ==
    /\ tasks[t].pc = "clean"
    /\ Cleaned(t, _clean_expired_cache(engine.context_cache, engine.last_access_times, now))

Detected(t, detected_secrets) ==
    /\ tasks' = [tasks EXCEPT
                   ![t].detected = detected_secrets,
                   ![t].sanitized = IF detected_secrets = << >> THEN tasks[t].data ELSE @,
                   ![t].pc = IF detected_secrets = << >> THEN "sanitized" ELSE "replace"]
    /\ UNCHANGED engine
    /\ ConcUnchanged

\* detected_secrets = await self._detect_secrets(data); with none, the data
\* is returned as it is
ConcDetect(t) ==
    /\ tasks[t].pc = "detect"
    /\ Detected(t, _detect_secrets(_get_default_patterns,
                                   CompiledOf(_get_default_patterns), tasks[t].data))

Replaced(t, r) ==
    /\ tasks' = [tasks EXCEPT ![t].sanitized = r.data,
                              ![t].placeholders = r.placeholders,
                              ![t].pc = "cache"]
    /\ UNCHANGED engine
    /\ ConcUnchanged

\* sanitized_data, placeholders = await self._replace_with_placeholders(...)
ConcReplace(t) ==
    /\ tasks[t].pc = "replace"
    /\ Replaced(t, _replace_with_placeholders(tasks[t].data, tasks[t].detected))

Cached(t, c) ==
    /\ engine' = [engine EXCEPT !.context_cache = c.cache,
                                !.last_access_times = c.last_access]
    /\ tasks' = [tasks EXCEPT ![t].pc = "metrics"]
    /\ ConcUnchanged

\* self._cache_context(context_id, result)
ConcCache(t) ==
    /\ tasks[t].pc = "cache"
    /\ Cached(t, _cache_context(engine.context_cache, engine.last_access_times,
                                engine.max_cache_size, tasks[t].context_id,
                                SanitizedData(tasks[t].sanitized, tasks[t].placeholders,
                                              tasks[t].context_id, now),
                                now))

\* self._update_sanitization_metrics(...); return result
ConcMetrics(t) ==
    /\ tasks[t].pc = "metrics"
    /\ engine' = [engine EXCEPT
                   !.performance_metrics.sanitization_calls = @ + 1,
                   !.performance_metrics.secrets_detected = @ + Len(tasks[t].detected)]
    /\ tasks' = [tasks EXCEPT ![t].pc = "sanitized"]
    /\ ConcUnchanged

\* _get_cached_context under the read lock: the context is fetched and the
\* hit or the miss is counted; a miss makes resolve_for_execution raise
ConcLookup(t) ==
    /\ tasks[t].pc = "sanitized"
    /\ IF tasks[t].context_id \in CacheIds(engine.context_cache)
       THEN /\ tasks' = [tasks EXCEPT
                           ![t].context =
                               CacheGet(engine.context_cache, tasks[t].context_id).placeholders,
                           ![t].pc = "promote"]
            /\ engine' = [engine EXCEPT !.performance_metrics.cache_hits = @ + 1]
       ELSE /\ tasks' = [tasks EXCEPT ![t].status = "ContextError", ![t].pc = "done"]
            /\ engine' = [engine EXCEPT !.performance_metrics.cache_misses = @ + 1]
    /\ ConcUnchanged

\* _get_cached_context under the write lock: the context, if still cached,
\* is moved to the end
ConcPromote(t) ==
    /\ tasks[t].pc = "promote"
    /\ IF tasks[t].context_id \in CacheIds(engine.context_cache)
       THEN /\ engine' = [engine EXCEPT
                            !.context_cache =
                                Append(CacheDel(@, tasks[t].context_id),
                                       CacheGet(@, tasks[t].context_id)),
                            !.last_access_times = Put(@, tasks[t].context_id, now)]
            /\ tasks' = [tasks EXCEPT ![t].pc = "resolve"]
       ELSE /\ tasks' = [tasks EXCEPT ![t].status = "ContextError", ![t].pc = "done"]
            /\ UNCHANGED engine
    /\ ConcUnchanged

ResolvedOwn(t, r) ==
    /\ tasks' = [tasks EXCEPT ![t].out = r.data, ![t].status = "ok", ![t].pc = "done"]
    /\ engine' = [engine EXCEPT !.performance_metrics.resolution_calls = @ + 1]
    /\ ConcUnchanged

\* resolved_data, resolved_count = await self._resolve_placeholders(...)
ConcResolve(t) ==
    /\ tasks[t].pc = "resolve"
    /\ ResolvedOwn(t, _resolve_placeholders(tasks[t].sanitized, tasks[t].context))

NextConc ==
    \E t \in TaskIds :
        \/ ConcBegin(t)
        \/ ConcClean(t)
        \/ ConcDetect(t)
        \/ ConcReplace(t)
        \/ ConcCache(t)
        \/ ConcMetrics(t)
        \/ ConcLookup(t)
        \/ ConcPromote(t)
        \/ ConcResolve(t)

SpecConc == InitConc /\ [][NextConc]_vars

(***************************************************************************)
(* Properties of the cache, checked under Spec and SpecLRU.                *)
(***************************************************************************)
Lookups == {"resolve_for_execution", "sanitize_response"}

\* C4: in every reachable state the cache holds at most max_cache_size
\* contexts; the store itself enforces the limit, whatever the background
\* task has or has not done.
CacheSizeInvariant == Len(engine.context_cache) <= engine.max_cache_size

\* a store into a full cache that evicted a context
CacheSizeWitness ==
    /\ ret.op = "sanitize_for_ai"
    /\ ret.evicted # << >>
    /\ Len(engine.context_cache) = engine.max_cache_size

\* C5 (as stated): no lookup by resolve_for_execution or sanitize_response
\* finds a context that was older than max_cache_age at the time of the call.
NeverResolvesExpired ==
    (ret.op \in Lookups /\ ret.hit) => ret.at - ret.created_at <= MaxCacheAge

\* The ids stored so far, and the number of them used earlier than id.
StoredIds == DOMAIN hist.last

UsedBefore(id) == Cardinality({o \in StoredIds : hist.use[o] < hist.use[id]})

Unresolvable(id) ==
    \A slow \in BOOLEAN :
        resolve_for_execution(engine, now, DataFor(id), id, slow).ret.status = "ContextError"

\* C7 (as stated): after more distinct contexts than max_cache_size have been
\* stored, with no clearing and no expiry, the statistics report max_cache_size
\* cached contexts and the max_cache_size least recently used are unresolvable.
CacheBoundOriginal ==
    (~hist.removed /\ Cardinality(StoredIds) > engine.max_cache_size) =>
        /\ get_cache_stats(engine.context_cache, engine.max_cache_size).cached_contexts
              = engine.max_cache_size
        /\ \A id \in StoredIds :
              UsedBefore(id) < engine.max_cache_size => Unresolvable(id)

\* C7 (amended): after N > max_cache_size distinct contexts have been stored,
\* with no clearing and no expiry, the statistics report max_cache_size
\* cached contexts, the N - max_cache_size least recently used are
\* unresolvable and the others are cached.
CacheBoundAmended ==
    (~hist.removed /\ Cardinality(StoredIds) > engine.max_cache_size) =>
        /\ get_cache_stats(engine.context_cache, engine.max_cache_size).cached_contexts
              = engine.max_cache_size
        /\ \A id \in StoredIds :
              IF UsedBefore(id) < Cardinality(StoredIds) - engine.max_cache_size
              THEN Unresolvable(id)
              ELSE id \in CacheIds(engine.context_cache)

\* three contexts stored into a cache of two, nothing cleared or expired
CacheBoundWitness ==
    /\ ~hist.removed
    /\ engine.max_cache_size = 2
    /\ Cardinality(StoredIds) = 3

\* A step that is a call of a public operation.
CallStep == calls' = calls + 1

\* C8: resolve_for_execution with an id that is not cached (never issued,
\* cleared or evicted) fails with the context-not-found error, replaces
\* nothing, counts one cache miss and leaves the cache and its order as
\* they were.
ResolveUnknownContext ==
    [][(/\ CallStep
        /\ ret'.op = "resolve_for_execution"
        /\ ret'.context_id \notin CacheIds(engine.context_cache))
       => /\ ret'.status = "ContextError"
          /\ ret'.data = Other
          /\ ret'.resolved_count = 0
          /\ engine' = [engine EXCEPT !.performance_metrics.cache_misses = @ + 1]]_vars

\* a failed resolve against an id that was stored earlier and is gone
ResolveUnknownWitness ==
    /\ ret.op = "resolve_for_execution"
    /\ ret.status = "ContextError"
    /\ ret.context_id \in StoredIds
    /\ engine.performance_metrics.cache_misses > 0

\* C9 (as stated): every lookup that finds an id uses the placeholder map
\* the id was stored with when it entered the cache, also after
\* sanitize_for_ai was called again with the same caller-supplied id.
ContextStabilityOriginal ==
    (ret.op \in Lookups /\ ret.hit) => ret.placeholders = hist.first[ret.context_id]

\* C9 (amended): every lookup that finds an id uses the placeholder map of
\* the most recent store under that id; a sanitize_for_ai with the same
\* caller-supplied id that detects secrets replaces the map.
ContextStabilityAmended ==
    (ret.op \in Lookups /\ ret.hit) => ret.placeholders = hist.last[ret.context_id]

\* a lookup found an id whose map was replaced by a second store
ContextStabilityWitness ==
    /\ ret.op \in Lookups
    /\ ret.hit
    /\ hist.first[ret.context_id] # hist.last[ret.context_id]

\* x is cached, its last use was a lookup, and that lookup came after the
\* last use of every other cached context.
LookedUpLast(x) ==
    /\ x \in CacheIds(engine.context_cache)
    /\ hist.by[x] = "lookup"
    /\ \A o \in CacheIds(engine.context_cache) \ {x} : hist.use[o] < hist.use[x]

Evicted == CacheIds(engine.context_cache) \ CacheIds(engine'.context_cache)

\* a store evicts only contexts used less recently than those it keeps
EvictsLeastRecentlyUsed ==
    \A e \in Evicted :
        \A o \in CacheIds(engine.context_cache) \cap CacheIds(engine'.context_cache) :
            o # ret'.stored_id => hist.use[e] < hist.use[o]

\* C6 (as stated): a store evicts least recently used contexts first, and
\* the context looked up last is never evicted by the next store.
LruOrderOriginal ==
    [][(CallStep /\ ret'.stored_id # NoId) =>
          /\ EvictsLeastRecentlyUsed
          /\ \A x \in CacheIds(engine.context_cache) :
                LookedUpLast(x) => x \notin Evicted]_vars

\* C6 (amended): a store evicts least recently used contexts first, and the
\* context looked up last is not evicted by the next store provided another
\* context is cached with it.
LruOrderAmended ==
    [][(CallStep /\ ret'.stored_id # NoId) =>
          /\ EvictsLeastRecentlyUsed
          /\ \A x \in CacheIds(engine.context_cache) :
                (LookedUpLast(x) /\ Len(engine.context_cache) >= 2) => x \notin Evicted]_vars

\* a full cache of two whose older context was looked up, then a store that
\* evicted the other one
LruOrderWitness ==
    /\ ret.op = "sanitize_for_ai"
    /\ ret.evicted # << >>
    /\ engine.max_cache_size = 2
    /\ \E x \in CacheIds(engine.context_cache) :
          /\ x # ret.stored_id
          /\ hist.by[x] = "lookup"
          /\ \A e \in Range(ret.evicted) : hist.use[x] > hist.use[e] /\ hist.last[x] # << >>

(***************************************************************************)
(* Properties of sanitize_for_ai and resolve_for_execution on one value,    *)
(* checked under SpecRT.                                                   *)
(***************************************************************************)
\* C1 (as stated): for every value accepted by sanitize_for_ai, resolving
\* the sanitized data with the returned context id succeeds and returns
\* data equal to the value.
RoundTripLaw ==
    pc = "resolved" => (ret.status = "ok" /\ ret.data = input)

\* The secrets Detection reports in the input.
DetectedInInput ==
    _detect_secrets(_get_default_patterns, CompiledOf(_get_default_patterns), input)

\* TRUE when some string of data, at any depth, attributes included,
\* contains value.
RECURSIVE Holds(_, _)
Holds(data, value) ==
    CASE data.kind = "str" -> Contains(data.text, value)
      [] data.kind \in {"dict", "list", "tuple", "object"} ->
            \E i \in 1..Len(data.items) : Holds(data.items[i], value)
      [] OTHER -> FALSE

\* C2 (as stated): the data sanitize_for_ai returns holds no value of a
\* secret that Detection reported in the input, whatever the container,
\* objects with an attribute mapping included.
NoLeakAfterSanitization ==
    (pc # "start" /\ san.status = "ok") =>
        \A i \in 1..Len(DetectedInInput) : ~Holds(san.data, DetectedInInput[i].value)

\* The input is a string in which Detection reports one secret value, of one
\* pattern, at two places or more.
RepeatedSecret ==
    /\ input.kind = "str"
    /\ Len(DetectedInInput) >= 2
    /\ \A i \in 1..Len(DetectedInInput) :
          /\ DetectedInInput[i].value = DetectedInInput[1].value
          /\ DetectedInInput[i].pattern_name = DetectedInInput[1].pattern_name

\* C10 (as stated): when one secret occurs several times in a string, every
\* occurrence is replaced by the placeholder and the text between and
\* around the occurrences is kept as it was.
PositionSafety ==
    (pc # "start" /\ san.status = "ok" /\ RepeatedSecret) =>
        san.data = Str(StrReplace(input.text, DetectedInInput[1].value,
                                  DetectedInInput[1].placeholder))

(***************************************************************************)
(* Properties of two concurrent callers, checked under SpecConc.           *)
(***************************************************************************)
Begun(t) == tasks[t].pc # "begin"

DistinctContextIds ==
    \A t \in TaskIds, u \in TaskIds :
        (t # u /\ Begun(t) /\ Begun(u)) => tasks[t].context_id # tasks[u].context_id

\* what is cached under a caller's id is that caller's map, and the map its
\* resolution used is its own
OwnMapOnly ==
    \A t \in TaskIds :
        /\ (Begun(t) /\ tasks[t].context_id \in CacheIds(engine.context_cache)) =>
              CacheGet(engine.context_cache, tasks[t].context_id).placeholders
                  = tasks[t].placeholders
        /\ tasks[t].pc \in {"promote", "resolve"} => tasks[t].context = tasks[t].placeholders

OwnRoundTrip ==
    \A t \in TaskIds :
        tasks[t].pc = "done" => (tasks[t].status = "ok" /\ tasks[t].out = tasks[t].data)

\* C3 (as stated): two concurrent sanitize_for_ai calls return distinct
\* context ids, each id resolves its own sanitized data back to its own
\* payload, and no entry of the other call's placeholder map is stored
\* under or used for that id.
ConcurrentIsolation ==
    /\ DistinctContextIds
    /\ OwnMapOnly
    /\ OwnRoundTrip

(***************************************************************************)
(* Properties of placeholders and of the no-secret path, checked under     *)
(* SpecRT.                                                                 *)
(***************************************************************************)
\* The number of non-overlapping occurrences of value in text from start on,
\* counted left to right.
RECURSIVE CountOf(_, _, _)
CountOf(text, value, start) ==
    LET pos == Find(text, value, start)
    IN IF pos = -1 THEN 0 ELSE 1 + CountOf(text, value, pos + Len(value))

SanitizeReturned == pc # "start" /\ san.status = "ok"

\* C11 (as stated): a secret value that occurs several times in one string
\* is replaced by the identical placeholder at each occurrence, and the
\* placeholder map holds exactly one entry for it.
PlaceholderDeterminism ==
    (SanitizeReturned /\ RepeatedSecret) =>
        /\ CountOf(san.data.text, DetectedInInput[1].placeholder, 0)
              = CountOf(input.text, DetectedInInput[1].value, 0)
        /\ Cardinality({i \in 1..Len(san.placeholders) :
                            san.placeholders[i][2] = DetectedInInput[1].value}) = 1

\* C12 (as stated): two different secret values matched by one pattern never
\* get the same placeholder, and every detected value is the value its
\* placeholder is mapped to.
NoPlaceholderCollisions ==
    (SanitizeReturned /\ input.kind = "str") =>
        \A i \in 1..Len(DetectedInInput) :
            /\ \A j \in 1..Len(DetectedInInput) :
                  (/\ DetectedInInput[i].pattern_name = DetectedInInput[j].pattern_name
                   /\ DetectedInInput[i].value # DetectedInInput[j].value)
                  => DetectedInInput[i].placeholder # DetectedInInput[j].placeholder
            /\ DetectedInInput[i].placeholder \in DictKeys(san.placeholders)
            /\ DictGet(san.placeholders, DetectedInInput[i].placeholder)
                  = DetectedInInput[i].value

\* TRUE when key occurs whole in some string of data.
RECURSIVE OccursIn(_, _)
OccursIn(data, key) ==
    CASE data.kind = "str" -> Contains(data.text, key)
      [] data.kind \in {"dict", "list", "tuple", "object"} ->
            \E i \in 1..Len(data.items) : OccursIn(data.items[i], key)
      [] OTHER -> FALSE

WellFormedSnapshot(data, placeholders) ==
    \A key \in DictKeys(placeholders) : OccursIn(data, key)

\* C13 (as stated): in every snapshot sanitize_for_ai returns and in every
\* cached one, the placeholder map is empty or each of its keys occurs
\* whole in the snapshot's data.
SnapshotInvariant ==
    /\ SanitizeReturned => WellFormedSnapshot(san.data, san.placeholders)
    /\ \A i \in 1..Len(engine.context_cache) :
          WellFormedSnapshot(engine.context_cache[i].data,
                             engine.context_cache[i].placeholders)

\* TRUE when some string of data, at any depth, holds a match of a pattern.
RECURSIVE AnyMatch(_)
AnyMatch(data) ==
    CASE data.kind = "str" ->
            \E i \in 1..Len(_get_default_patterns) :
                FindIter([head |-> _get_default_patterns[i].head,
                          tail |-> _get_default_patterns[i].tail], data.text, 0) # << >>
      [] data.kind \in {"dict", "list", "tuple", "object"} ->
            \E i \in 1..Len(data.items) : AnyMatch(data.items[i])
      [] OTHER -> FALSE

\* C14: when no string of v holds a match of a registered pattern,
\* sanitize_for_ai(v) returns data equal to v and an empty placeholder map.
NoSecretIdempotence ==
    (SanitizeReturned /\ ~AnyMatch(input)) =>
        (san.data = input /\ san.placeholders = << >>)

\* sanitize_for_ai returned a container holding a string, none with a match
NoSecretWitness ==
    /\ SanitizeReturned
    /\ ~AnyMatch(input)
    /\ input.kind = "tuple"
    /\ \E i \in 1..Len(input.items) : input.items[i].kind = "str"
    /\ san.data = input

\* C15 (as stated): after sanitize_for_ai on a value with no detected
\* secret, the returned context id is cached with an empty placeholder map.
NoSecretContextStored ==
    (pc = "sanitized" /\ san.status = "ok" /\ DetectedInInput = << >>) =>
        /\ san.context_id \in CacheIds(engine.context_cache)
        /\ CacheGet(engine.context_cache, san.context_id).placeholders = << >>

\* C16 (as stated): for a value with no pattern match, sanitize_for_ai
\* completes without error, and so does resolve_for_execution with the
\* context id it returned.
NoSecretNeverRaises ==
    ~AnyMatch(input) =>
        /\ pc # "start" => san.status = "ok"
        /\ pc = "resolved" => ret.status = "ok"

(***************************************************************************)
(* Errors.  An exception is known by its class, its message (str(error)),  *)
(* the frame lines of its __traceback__ (none for an exception that was    *)
(* never raised) and the identity of the object.                           *)
(***************************************************************************)
Error(type, message, traceback, object) ==
    [type |-> type, message |-> message, traceback |-> traceback, object |-> object]

NoError == Error("none", << >>, << >>, "none")

\* Exception classes whose constructor accepts the message alone;
\* UnicodeDecodeError takes five arguments.
MessageOnlyTypes == {"Exception", "ValueError", "SanitizationError", "PerformanceError"}

\* The exception an engine call raised, caught where the frame line is frame.
EngineRaised(status, frame) == Error(status, <<"a">>, <<frame>>, "original")

\* ", line 7" in a text, and what the line scrubbing leaves of it
LineNumber == ", line 7"

LineRedacted == ", line <redacted>"

\* traceback.format_exception(type(error), error, error.__traceback__): the
\* header, the frame lines, and "Type: message" (the class name with its
\* colon is one symbol).
format_exception(error) ==
    <<<<"Traceback (most recent call last):">>>>
        \o error.traceback
        \o <<<<error.type, " ">> \o error.message>>

\* text.strip()
RECURSIVE Strip(_)
Strip(text) ==
    IF text = << >> THEN text
    ELSE IF Head(text) \in Whitespace THEN Strip(Tail(text))
    ELSE IF text[Len(text)] \in Whitespace THEN Strip(SubSeq(text, 1, Len(text) - 1))
    ELSE text

\* re.sub on ", line N" (and on "line N": the same symbol here).  The texts
\* of the model hold no quoted File "..." path, which the first
\* substitution of _sanitize_traceback_line rewrites.
RedactLineNumbers(text) ==
    [i \in 1..Len(text) |-> IF text[i] = LineNumber THEN LineRedacted ELSE text[i]]

\* The rest of _sanitize_traceback_line, after sanitize_for_ai on the line.
ScrubLine(text) ==
    IF \E i \in 1..Len(text) : text[i] = "local variables:"
    THEN <<"<local variables redacted for security>">>
    ELSE RedactLineNumbers(text)

\* The element of a one-element set: Only({F(x) : x \in {v}}) is F(v), with
\* v computed once.
Only(S) == CHOOSE x \in S : TRUE

\* for line in tb_lines: sanitized_lines.append(
\*     await self._sanitize_traceback_line(line))
\* slow: which of the handler's sanitize_for_ai calls is over the threshold
\* (0 for none).  LineSanitized: the loop after sanitize_for_ai on the head
\* line gave f.
RECURSIVE SanitizeLines(_, _, _, _, _)
RECURSIVE LineSanitized(_, _, _, _, _)
LineSanitized(f, t, lines, slow, done) ==
    IF f.ret.status # "ok"
    THEN [engine |-> f.engine, status |-> f.ret.status, lines |-> done]
    ELSE SanitizeLines(f.engine, t, Tail(lines), slow,
                       Append(done, ScrubLine(f.ret.data.text)))

SanitizeLines(e, t, lines, slow, done) ==
    IF lines = << >> THEN [engine |-> e, status |-> "ok", lines |-> done]
    ELSE Only({LineSanitized(f, t, lines, slow, done) :
                f \in {sanitize_for_ai(e, t, Str(Head(lines)), NoId,
                                       slow = Len(done) + 1)}})

\* type(error)(sanitized_message): the new exception, or the TypeError the
\* constructor raises
Construct(type, message, traceback) ==
    IF type \in MessageOnlyTypes
    THEN [status |-> "ok", error |-> Error(type, message, traceback, "sanitized")]
    ELSE [status |-> "TypeError", error |-> NoError]

\* The outcome of a sanitizer of errors: the engine after the call, the
\* status ("ok" or the exception the call raised) and the error returned.
Constructed(e, c) == [engine |-> e, status |-> c.status, error |-> c.error]

\* sanitize_traceback after sanitize_for_ai on the message gave error_data
MessageSanitized(error, error_data) ==
    IF error_data.ret.status # "ok"
    THEN [engine |-> error_data.engine, status |-> error_data.ret.status,
          error |-> NoError]
    ELSE Constructed(error_data.engine,
                     Construct(error.type, error_data.ret.data.text, << >>))

\* The message sanitize_traceback hands to sanitize_for_ai: the last line
MessageOf(lines) == RedactLineNumbers(Strip(lines[Len(lines)]))

\* sanitize_traceback after the loop over the lines gave l: only the last
\* line, the exception message, is kept
LinesSanitized(t, error, slow, l) ==
    IF l.status # "ok"
    THEN [engine |-> l.engine, status |-> l.status, error |-> NoError]
    ELSE Only({MessageSanitized(error, error_data) :
                error_data \in {sanitize_for_ai(l.engine, t, Str(MessageOf(l.lines)),
                                                NoId, slow = Len(l.lines) + 1)}})

sanitize_traceback(e, t, error, slow) ==
    IF error.traceback = << >>
    THEN [engine |-> e, status |-> "ok", error |-> error]
    ELSE Only({LinesSanitized(t, error, slow, l) :
                l \in {SanitizeLines(e, t, format_exception(error), slow, << >>)}})

(***************************************************************************)
(* The wrappers around a protected function: UniversalProtection and       *)
(* MCPToolProtection.  The function is called with one positional          *)
(* argument and no keyword argument.                                       *)
(***************************************************************************)
\* Python's None
NoneValue == [kind |-> "none", text |-> << >>, items |-> << >>]

\* {"args": args, "kwargs": kwargs}
InputData(arg) == Dict(<<Tuple(<<arg>>), Dict(<< >>)>>)

\* Variant: the function is called with the sanitized arguments.
CallArguments_sanitized(args, sanitized_args) == sanitized_args

\* func(*args, **kwargs): the arguments the function receives, given the
\* call's arguments and the sanitized ones
CallArguments(args, sanitized_args) == args

\* MCPToolProtection._sanitize_error after the engine call on str(error)
\* gave f
ErrorMessageSanitized(error, f) ==
    IF f.ret.status # "ok"
    THEN [engine |-> f.engine, status |-> f.ret.status, error |-> NoError]
    ELSE Constructed(f.engine, Construct(error.type, f.ret.data.text, error.traceback))

\* MCPToolProtection._sanitize_error
_sanitize_error(e, t, error, context_id, slow) ==
    IF context_id # NoId
    THEN Only({ErrorMessageSanitized(error, f) :
                f \in {sanitize_response(e, t, Str(error.message), context_id, slow)}})
    ELSE Only({ErrorMessageSanitized(error, f) :
                f \in {sanitize_for_ai(e, t, Str(error.message), NoId, slow)}})

(***************************************************************************)
(* SpecCall: one protected call, statement by statement: the wrapper       *)
(* sanitizes the input, invokes the function, and sanitizes what the       *)
(* function returned or handles what it raised.  A third kind of run calls *)
(* the engine's sanitize_traceback directly.                               *)
(***************************************************************************)
Wrappers == {"protect_call", "protect_tool_call"}

\* The argument of the call: no secret, a key, a key under a home path, two
\* keys, a string over the length limit.
CallArgs ==
    {Str(<<"a">>), Str(<<"k", "a">>), Str(<<"H", "k", "a">>),
     Str(<<"k", "a", " ", "k", "b">>), Str(TooLong)}

\* A frame line of a traceback: a source file outside or under a home path.
FrameLines == {<<"a", LineNumber>>, <<"H", "a">>}

\* What the function may return, given its argument.
Results(arg) ==
    {NoneValue, Other, arg, Str(<<"k", "a", " ", "k", "a">>), List(<<arg>>),
     Dict(<<Tuple(<<arg, Str(<<"b", "k", "a">>)>>)>>), Object(<<arg>>)}

Messages == {<<"a">>, <<"k", "a">>, <<"a", LineNumber>>}

ErrorTypes == {"ValueError", "UnicodeDecodeError"}

\* What the function may raise, where its frame line is frame.
Raised(frame) ==
    {Error(type, message, <<frame>>, "original") :
        type \in ErrorTypes, message \in Messages}

\* The errors sanitize_traceback is called with directly: raised or not.
DirectErrors(frame) ==
    Raised(frame) \cup
        {Error(type, message, << >>, "original") :
            type \in ErrorTypes, message \in Messages}

NoTrace == [called |-> FALSE, error |-> NoError, status |-> "none", returned |-> NoError]

\* The call in flight: the wrapper, the frame line of the code around it,
\* how often the function was invoked and with what, what it returned,
\* the exception caught, the context id of the input sanitization, the
\* value handed back, the exception that propagates, the statements run so
\* far, and the last sanitize_traceback call.
CallRecord(wrapper, frame) ==
    [wrapper |-> wrapper, frame |-> frame, invoked |-> 0, received |-> NoneValue,
     result |-> NoneValue, error |-> NoError, context_id |-> NoId,
     handed |-> NoneValue, propagated |-> NoError, log |-> << >>, traced |-> NoTrace]

\* The engine after an earlier sanitize_for_ai of a key under the caller's
\* own context id.
EarlierCall ==
    sanitize_for_ai(EngineInit(MaxCacheSize), 0, Str(<<"k", "b">>), "ctx-A", FALSE).engine

InitCall ==
    /\ engine \in {EngineInit(MaxCacheSize), EarlierCall}
    /\ now = 0
    /\ calls = 0
    /\ ret = NoOutcome
    /\ san = NoOutcome
    /\ hist = HistInit
    /\ input \in CallArgs
    /\ pc = "start"
    /\ tasks \in {CallRecord(w, f) : w \in Wrappers \cup {"engine"}, f \in FrameLines}

\* What the input sanitization does to the variables, given its result: an
\* exception of the engine is caught by the wrapper's except clause.
InputSanitized(result) ==
    /\ engine' = result.engine
    /\ san' = result.ret
    /\ calls' = calls + 1
    /\ pc' = IF result.ret.status = "ok" THEN "sanitized" ELSE "failed"
    /\ tasks' = IF result.ret.status = "ok"
                THEN [tasks EXCEPT !.context_id = result.ret.context_id,
                                   !.log = Append(@, "sanitize_input")]
                ELSE [tasks EXCEPT !.error = EngineRaised(result.ret.status, tasks.frame)]
    /\ UNCHANGED <<now, ret, hist, input>>

\* await self._engine.sanitize_for_ai(input_data) and
\* await self._sanitize_arguments(args, kwargs)
SanitizeInput ==
    /\ pc = "start"
    /\ tasks.wrapper \in Wrappers
    /\ \E slow \in BOOLEAN :
        \E result \in {sanitize_for_ai(engine, now, InputData(input), NoId, slow)} :
            InputSanitized(result)

\* result = func(*args, **kwargs): the function returns
InvokeReturns ==
    /\ pc = "sanitized"
    /\ \E result \in Results(input) :
        tasks' = [tasks EXCEPT !.invoked = @ + 1,
                               !.received = CallArguments(input, san.data.items[1].items[1]),
                               !.result = result,
                               !.log = Append(@, "invoke")]
    /\ pc' = "returned"
    /\ UNCHANGED <<engine, now, calls, ret, san, hist, input>>

\* result = func(*args, **kwargs): the function raises
InvokeRaises ==
    /\ pc = "sanitized"
    /\ \E e \in Raised(tasks.frame) :
        tasks' = [tasks EXCEPT !.invoked = @ + 1,
                               !.received = CallArguments(input, san.data.items[1].items[1]),
                               !.error = e,
                               !.log = Append(@, "invoke")]
    /\ pc' = "failed"
    /\ UNCHANGED <<engine, now, calls, ret, san, hist, input>>

\* What the output sanitization does to the variables, given its result.
OutputSanitized(result) ==
    /\ engine' = result.engine
    /\ ret' = result.ret
    /\ calls' = calls + 1
    /\ pc' = IF result.ret.status = "ok" THEN "done" ELSE "failed"
    /\ tasks' = IF result.ret.status = "ok"
                THEN [tasks EXCEPT !.handed = result.ret.data,
                                   !.log = Append(@, "sanitize_output")]
                ELSE [tasks EXCEPT !.error = EngineRaised(result.ret.status, tasks.frame)]
    /\ UNCHANGED <<now, san, hist, input>>

\* protect_call: if result is not None: return (await
\* self._engine.sanitize_for_ai(result)).data; return result
ProtectCallOutput ==
    /\ pc = "returned"
    /\ tasks.wrapper = "protect_call"
    /\ IF tasks.result = NoneValue
       THEN /\ pc' = "done"
            /\ tasks' = [tasks EXCEPT !.handed = tasks.result]
            /\ UNCHANGED <<engine, now, calls, ret, san, hist, input>>
       ELSE \E slow \in BOOLEAN :
                \E result \in {sanitize_for_ai(engine, now, tasks.result, NoId, slow)} :
                    OutputSanitized(result)

\* protect_tool_call: return await self.engine.sanitize_response(result,
\* context_id)
ProtectToolCallOutput ==
    /\ pc = "returned"
    /\ tasks.wrapper = "protect_tool_call"
    /\ \E slow \in BOOLEAN :
        \E result \in {sanitize_response(engine, now, tasks.result,
                                         tasks.context_id, slow)} :
            OutputSanitized(result)

\* What a sanitize_traceback call leaves in the call record.
Traced(error, r) ==
    [called |-> TRUE, error |-> error, status |-> r.status, returned |-> r.error]

\* protect_call's except clause, given the result of sanitize_traceback:
\* raise e from None, unless sanitize_traceback raised itself
CallErrorHandled(r) ==
    /\ engine' = r.engine
    /\ calls' = calls + 1
    /\ pc' = "raised"
    /\ tasks' = [tasks EXCEPT
                    !.traced = Traced(tasks.error, r),
                    !.propagated =
                        IF r.status = "ok" THEN tasks.error
                        ELSE Error(r.status, <<"a">>, <<tasks.frame>>, "secondary")]
    /\ UNCHANGED <<now, ret, san, hist, input>>

MaxSlowCall == 4

ProtectCallError ==
    /\ pc = "failed"
    /\ tasks.wrapper = "protect_call"
    /\ \E slow \in 0..MaxSlowCall :
        \E r \in {sanitize_traceback(engine, now, tasks.error, slow)} :
            CallErrorHandled(r)

\* protect_tool_call's except clause, given the result of _sanitize_error:
\* raise sanitized_error, unless _sanitize_error raised itself
ToolCallErrorHandled(r) ==
    /\ engine' = r.engine
    /\ calls' = calls + 1
    /\ pc' = "raised"
    /\ tasks' = [tasks EXCEPT
                    !.propagated =
                        IF r.status = "ok" THEN r.error
                        ELSE Error(r.status, <<"a">>, <<tasks.frame>>, "secondary")]
    /\ UNCHANGED <<now, ret, san, hist, input>>

ProtectToolCallError ==
    /\ pc = "failed"
    /\ tasks.wrapper = "protect_tool_call"
    /\ \E slow \in BOOLEAN :
        \E r \in {_sanitize_error(engine, now, tasks.error, tasks.context_id, slow)} :
            ToolCallErrorHandled(r)

\* What a direct sanitize_traceback call does to the variables.
TracebackSanitized(error, r) ==
    /\ engine' = r.engine
    /\ calls' = calls + 1
    /\ pc' = "done"
    /\ tasks' = [tasks EXCEPT !.error = error, !.traced = Traced(error, r)]
    /\ UNCHANGED <<now, ret, san, hist, input>>

\* await engine.sanitize_traceback(error)
SanitizeTraceback ==
    /\ pc = "start"
    /\ tasks.wrapper = "engine"
    /\ \E error \in DirectErrors(tasks.frame), slow \in 0..MaxSlowCall :
        \E r \in {sanitize_traceback(engine, now, error, slow)} :
            TracebackSanitized(error, r)

NextCall ==
    \/ SanitizeInput
    \/ InvokeReturns
    \/ InvokeRaises
    \/ ProtectCallOutput
    \/ ProtectToolCallOutput
    \/ ProtectCallError
    \/ ProtectToolCallError
    \/ SanitizeTraceback

SpecCall == InitCall /\ [][NextCall]_vars

(***************************************************************************)
(* Claims about a protected call, sanitize_traceback and sanitize_response.*)
(***************************************************************************)
\* The run is a call through one of the two wrappers.
ProtectedCall == tasks.wrapper \in Wrappers

PassedSecrets ==
    _detect_secrets(_get_default_patterns, CompiledOf(_get_default_patterns),
                    InputData(input))

\* C18 (as stated): when the function raised inside a protected call, the
\* exception that propagates is not the original object, has the original
\* exception's type, and its message holds none of the secret values
\* passed to the call.
SanitizedExceptionPropagates ==
    (ProtectedCall /\ pc = "raised" /\ tasks.error.type \in ErrorTypes) =>
        /\ tasks.propagated.object # "original"
        /\ tasks.propagated.type = tasks.error.type
        /\ \A i \in 1..Len(PassedSecrets) :
                ~Contains(tasks.propagated.message, PassedSecrets[i].value)

\* The secrets Detection reports in a message.
DetectableIn(message) ==
    _detect_secrets_in_string(_get_default_patterns,
                              CompiledOf(_get_default_patterns), message)

\* C19 (as stated): sanitize_traceback(error) returns, whether or not error
\* has a traceback, a new error of the same type, without a traceback,
\* whose message holds none of the secret values detectable in the
\* message of error.
TracebackAlwaysSanitized ==
    tasks.traced.called =>
        /\ tasks.traced.status = "ok"
        /\ tasks.traced.returned.object # tasks.traced.error.object
        /\ tasks.traced.returned.type = tasks.traced.error.type
        /\ tasks.traced.returned.traceback = << >>
        /\ \A i \in 1..Len(DetectableIn(tasks.traced.error.message)) :
                ~Contains(tasks.traced.returned.message,
                          DetectableIn(tasks.traced.error.message)[i].value)

\* TRUE when some string of data, reached through dict values and list or
\* tuple items, contains value.
RECURSIVE HoldsInContainers(_, _)
HoldsInContainers(data, value) ==
    CASE data.kind = "str" -> Contains(data.text, value)
      [] data.kind \in {"dict", "list", "tuple"} ->
            \E i \in 1..Len(data.items) : HoldsInContainers(data.items[i], value)
      [] OTHER -> FALSE

\* sanitize_response returned, having found the context cached.
ScrubbedWithContext ==
    ret.op = "sanitize_response" /\ ret.hit /\ ret.status = "ok"

FallbackStep == ret' # ret /\ ret'.op = "sanitize_response" /\ ~ret'.hit

\* C21: sanitize_response with a context id that is not cached returns the
\* data a fresh sanitize_for_ai of the value gives, leaves the cache without
\* an entry under that id, and adds an entry, under the next generated id,
\* exactly when a string of the value holds a match of a pattern.
ResponseFallback ==
    [][FallbackStep =>
        /\ ret'.context_id \notin CacheIds(engine.context_cache)
        /\ ret'.context_id \notin CacheIds(engine'.context_cache)
        /\ ret'.data = sanitize_for_ai(engine, now, ret'.arg, NoId, FALSE).ret.data
        /\ CacheIds(engine'.context_cache) \ CacheIds(engine.context_cache)
              = IF AnyMatch(ret'.arg) /\ _validate_input_size(ret'.arg)
                THEN {Uuid4(engine.uuids)} ELSE {}]_vars

\* A tool call without a secret in its arguments returned a value with a
\* key: the response was sanitized afresh and stored under a new id, next to
\* the context of an earlier call.
ResponseFallbackWitness ==
    /\ tasks.wrapper = "protect_tool_call"
    /\ pc = "done"
    /\ ret.op = "sanitize_response"
    /\ ~ret.hit
    /\ ret.context_id = "uuid-1"
    /\ tasks.received = Str(<<"a">>)
    /\ ret.arg = Dict(<<Tuple(<<Str(<<"a">>), Str(<<"b", "k", "a">>)>>)>>)
    /\ ret.data.items[1].items[2] = Str(<<"b", "{{OPENAI_API_KEY}}">>)
    /\ ret.stored_id = "uuid-2"
    /\ CacheIds(engine.context_cache) = {"ctx-A", "uuid-2"}

\* The number of characters of all strings reachable from data.
RECURSIVE TotalSize(_)
TotalSize(data) ==
    IF data.kind = "str" THEN Len(data.text)
    ELSE IF data.items = << >> THEN 0
    ELSE TotalSize(Head(data.items)) + TotalSize(Make(data.kind, Tail(data.items)))

\* TRUE when a string longer than the limit is held by data at some depth.
RECURSIVE HoldsLongString(_)
HoldsLongString(data) ==
    IF data.kind = "str" THEN Len(data.text) > MaxStringLength
    ELSE \E i \in 1..Len(data.items) : HoldsLongString(data.items[i])

\* sanitize_for_ai raised the input error and left the engine as it was, but
\* for the generated id.
RejectedUntouched ==
    /\ san.status = "SanitizationError"
    /\ engine.context_cache = << >>
    /\ engine.performance_metrics = EngineInit(MaxCacheSize).performance_metrics

\* C23: a sanitize_for_ai call on a value whose strings together exceed
\* max_data_size, or that holds a string longer than max_string_length at
\* some depth, raises the input error, stores no context and changes no
\* metric.
InputCeilings ==
    (pc = "sanitized" /\ (TotalSize(input) > MaxDataSize \/ HoldsLongString(input)))
        => RejectedUntouched

\* A step that is a sanitize_for_ai call whose measured duration is over
\* 5 ms.
SlowSanitizeStep(data, context_id) ==
    /\ CallStep
    /\ engine' = sanitize_for_ai(engine, now, data, context_id, TRUE).engine
    /\ ret' = sanitize_for_ai(engine, now, data, context_id, TRUE).ret

\* A step that is a resolve_for_execution call, of a cached context, whose
\* measured duration is over 10 ms.
SlowResolveStep(context_id) ==
    /\ CallStep
    /\ context_id \in CacheIds(engine.context_cache)
    /\ engine' = resolve_for_execution(engine, now, DataFor(context_id), context_id, TRUE).engine
    /\ ret' = resolve_for_execution(engine, now, DataFor(context_id), context_id, TRUE).ret

\* C24: a sanitize_for_ai call that takes more than 5 ms raises the
\* performance error, whether or not its input holds a secret, and so does
\* a resolve_for_execution call that takes more than 10 ms.
LatencyPoliced ==
    [][/\ \A data \in Payloads, context_id \in {NoId} \cup CallerIds :
            SlowSanitizeStep(data, context_id) => ret'.status = "PerformanceError"
       /\ \A context_id \in KnownIds :
            SlowResolveStep(context_id) => ret'.status = "PerformanceError"]_vars

\* The number of occurrences str.replace replaces in text, over the entries
\* of the placeholder map in order.
RECURSIVE OccurrencesReplaced(_, _)
OccurrencesReplaced(text, placeholder_map) ==
    IF placeholder_map = << >> THEN 0
    ELSE CountOf(text, Head(placeholder_map)[1], 0)
            + OccurrencesReplaced(
                  StrReplace(text, Head(placeholder_map)[1], Head(placeholder_map)[2]),
                  Tail(placeholder_map))

\* The same, summed over the strings resolve_for_execution reaches in data.
RECURSIVE ReplacedIn(_, _)
ReplacedIn(data, placeholder_map) ==
    IF data.kind = "str" THEN OccurrencesReplaced(data.text, placeholder_map)
    ELSE IF data.kind \notin {"dict", "list", "tuple"} \/ data.items = << >> THEN 0
    ELSE ReplacedIn(Head(data.items), placeholder_map)
            + ReplacedIn(Make(data.kind, Tail(data.items)), placeholder_map)

ResolveReturned == pc \in {"resolved", "executed"} /\ ret.status = "ok"

\* C25: the resolved_count resolve_for_execution returns is the number of
\* placeholder occurrences it replaced, summed over the strings of the
\* value, and is zero exactly when it replaced nothing.
ResolvedCountExact ==
    ResolveReturned =>
        /\ ret.resolved_count = ReplacedIn(ret.arg, san.placeholders)
        /\ ret.resolved_count = 0 <=> ret.data = ret.arg

(***************************************************************************)
(* The error classes.  cryptex_ai.core.exceptions.CryptexError sanitizes    *)
(* its message when constructed and its details and cause in to_dict;      *)
(* cryptex.core.exceptions.CryptexError, the class the engine raises,       *)
(* keeps all three as given.  In the texts of this part "k" is the prefix   *)
(* sk-, "a" a run of 48 letters and digits, "e" a short word; no text       *)
(* holds one of the other prefixes or a path.                               *)
(***************************************************************************)
\* re.sub(r"[a-zA-Z0-9]{32,}", "[KEY_REDACTED]", message): each maximal run
RECURSIVE RedactRuns(_, _)
RedactRuns(message, in_run) ==
    IF message = << >> THEN << >>
    ELSE IF Head(message) = "a"
         THEN (IF in_run THEN << >> ELSE <<"[KEY_REDACTED]">>)
                  \o RedactRuns(Tail(message), TRUE)
         ELSE <<Head(message)>> \o RedactRuns(Tail(message), FALSE)

_sanitize_message(message) ==
    IF message = << >> THEN message
    ELSE RedactRuns(StrReplace(message, <<"k", "a">>, <<"[OPENAI_KEY_REDACTED]">>), FALSE)

sensitive_keys ==
    {"secret_value", "api_key", "token", "password", "key", "auth",
     "resolved_value", "placeholder_value", "pattern_string", "input_data",
     "secret", "credential", "auth_token"}

\* One key of a details dict with its value.
Entry(key, value) == [kind |-> "entry", text |-> <<key>>, items |-> <<value>>]

Redacted == Str(<<"[REDACTED]">>)

\* [self._sanitize_message(item) if isinstance(item, str) else item ...]
SanitizeListItem(item) ==
    IF item.kind = "str" THEN Str(_sanitize_message(item.text)) ELSE item

RECURSIVE _sanitize_details(_)
RECURSIVE SanitizeEntry(_)

SanitizeEntry(entry) ==
    LET key == entry.text[1]
        value == entry.items[1]
    IN Entry(key,
          CASE key \in sensitive_keys -> Redacted
            [] value.kind = "str" -> Str(_sanitize_message(value.text))
            [] value.kind = "dict" ->
                  IF \E i \in 1..Len(value.items) : value.items[i].text[1] \in sensitive_keys
                  THEN Redacted
                  ELSE _sanitize_details(value)
            [] value.kind = "list" ->
                  List([i \in 1..Len(value.items) |-> SanitizeListItem(value.items[i])])
            [] OTHER -> value)

_sanitize_details(details) ==
    Dict([i \in 1..Len(details.items) |-> SanitizeEntry(details.items[i])])

\* CryptexError(message, details=details, cause=cause) of the package: what
\* the object holds; cause is the message of the chained exception, or
\* empty when there is none
CryptexError(package, message, details, cause) ==
    [package |-> package,
     args |-> IF package = "cryptex_ai" THEN _sanitize_message(message) ELSE message,
     details |-> details,
     cause |-> cause]

\* str(error)
ErrorStr(error) == error.args

to_dict(error) ==
    IF error.package = "cryptex_ai"
    THEN [message |-> ErrorStr(error),
          details |-> _sanitize_details(error.details),
          cause |-> _sanitize_message(error.cause)]
    ELSE [message |-> ErrorStr(error),
          details |-> error.details,
          cause |-> error.cause]

(***************************************************************************)
(* SpecErr: an error of either package is constructed from a message, a    *)
(* details dict and a cause, and then printed or serialized.               *)
(***************************************************************************)
Packages == {"cryptex", "cryptex_ai"}

ErrTexts == {<<"e">>, <<"e", " ", "k", "a">>, <<"a", "a", " ", "k", "a", "a">>}

ErrKeys == {"info", "api_key"}

DetailLeaves == {Other} \cup {Str(text) : text \in ErrTexts}

\* Values of a details key: strings, and dicts, lists and tuples of them.
DetailValues ==
    LET flat == DetailLeaves
                 \cup {Dict(<<Entry(key, x)>>) : key \in ErrKeys, x \in DetailLeaves}
                 \cup {Make(kind, <<x>>) : kind \in {"list", "tuple"}, x \in DetailLeaves}
    IN flat \cup {Dict(<<Entry("info", x)>>) : x \in flat}
            \cup {List(<<x>>) : x \in flat}

ErrDetails ==
    {Dict(<< >>)} \cup {Dict(<<Entry(key, value)>>) : key \in ErrKeys, value \in DetailValues}

ErrCauses == {<< >>} \cup ErrTexts

InitErr ==
    /\ engine = EngineInit(MaxCacheSize)
    /\ now = 0
    /\ calls = 0
    /\ ret = NoOutcome
    /\ san = NoOutcome
    /\ hist = HistInit
    /\ input \in {CryptexError(package, message, details, cause) :
                    package \in Packages, message \in ErrTexts,
                    details \in ErrDetails, cause \in ErrCauses}
    /\ pc = "start"
    /\ tasks = NoTasks

\* str(error)
ErrPrinted ==
    /\ pc = "start"
    /\ ret' = [message |-> ErrorStr(input), details |-> Dict(<< >>), cause |-> << >>]
    /\ pc' = "str"
    /\ UNCHANGED <<engine, now, calls, san, hist, input, tasks>>

\* error.to_dict()
ErrSerialized ==
    /\ pc = "start"
    /\ ret' = to_dict(input)
    /\ pc' = "to_dict"
    /\ UNCHANGED <<engine, now, calls, san, hist, input, tasks>>

NextErr == ErrPrinted \/ ErrSerialized

SpecErr == InitErr /\ [][NextErr]_vars

\* TRUE when an OpenAI key stands in a string reached from value, through
\* containers of any kind.
RECURSIVE KeyIn(_)
KeyIn(value) ==
    IF value.kind = "str" THEN Contains(value.text, <<"k", "a">>)
    ELSE \E i \in 1..Len(value.items) : KeyIn(value.items[i])

\* C22: neither str(error) nor error.to_dict() of an error constructed with
\* an OpenAI key in its message, its details or its cause holds the key.
ErrorScrubbed ==
    pc \in {"str", "to_dict"} =>
        /\ ~Contains(ret.message, <<"k", "a">>)
        /\ ~KeyIn(ret.details)
        /\ ~Contains(ret.cause, <<"k", "a">>)

(***************************************************************************)
(* The pattern registry of cryptex_ai.patterns: a dict from names to       *)
(* patterns, seeded with DEFAULT_PATTERNS.  A dict is a sequence of        *)
(* <<key, value>> pairs in insertion order; a regex is known by its        *)
(* source.                                                                 *)
(***************************************************************************)
BaseSecretPattern(name, pattern, placeholder_template) ==
    [name |-> name, pattern |-> pattern, placeholder_template |-> placeholder_template]

DEFAULT_PATTERNS ==
    <<BaseSecretPattern("openai_key", "sk-[a-zA-Z0-9]{48}", "{{OPENAI_API_KEY}}"),
      BaseSecretPattern("anthropic_key", "sk-ant-[a-zA-Z0-9-]{40,}", "{{ANTHROPIC_API_KEY}}"),
      BaseSecretPattern("github_token", "ghp_[a-zA-Z0-9]{36}", "{{GITHUB_TOKEN}}"),
      BaseSecretPattern("file_path", "(/[^/\\s]+)+/?", "/{USER_HOME}/.../{filename}"),
      BaseSecretPattern("database_url", "(?:postgresql|mysql|sqlite|redis)://[^\\s]+",
                        "{{DATABASE_URL}}")>>

\* The regex sources re.compile rejects.
InvalidRegexes == {"("}

\* The names of the model in the order sorted() gives them.
SortedNames ==
    <<"", " ", "anthropic_key", "custom_key", "database_url", "file_path",
      "github_token", "openai_key", "other_key">>

\* sorted(names), from the i-th name of the order on
RECURSIVE SortedFrom(_, _)
SortedFrom(names, i) ==
    IF i > Len(SortedNames) THEN << >>
    ELSE SelectSeq(names, LAMBDA n : n = SortedNames[i]) \o SortedFrom(names, i + 1)

\* list(d.keys()) and list(d.values())
KeyList(d) == [i \in 1..Len(d) |-> d[i][1]]

ValueList(d) == [i \in 1..Len(d) |-> d[i][2]]

\* del d[k]
DictDel(d, k) == SelectSeq(d, LAMBDA e : e[1] # k)

\* PatternRegistry.__init__: self._patterns
PatternRegistry ==
    [i \in 1..Len(DEFAULT_PATTERNS) |-> <<DEFAULT_PATTERNS[i].name, DEFAULT_PATTERNS[i]>>]

\* What a registry operation leaves: the dict, how the call ended, and what
\* it returned.
RegResult(patterns, status, value) ==
    [patterns |-> patterns, status |-> status, value |-> value]

register(patterns, name, pattern, placeholder_template) ==
    IF name \in DictKeys(patterns)
    THEN RegResult(patterns, "ValueError: already registered", << >>)
    ELSE IF pattern \in InvalidRegexes
         THEN RegResult(patterns, "ValueError: Invalid regex pattern", << >>)
         ELSE RegResult(DictSet(patterns, name,
                            BaseSecretPattern(name, pattern, placeholder_template)),
                        "ok", << >>)

unregister(patterns, name) ==
    IF name \in DictKeys(patterns)
    THEN RegResult(DictDel(patterns, name), "ok", <<"True">>)
    ELSE RegResult(patterns, "ok", <<"False">>)

\* PatternRegistry.get: the pattern, or None (the empty sequence)
get(patterns, name) ==
    RegResult(patterns, "ok",
        IF name \in DictKeys(patterns) THEN <<DictGet(patterns, name)>> ELSE << >>)

get_all(patterns) == RegResult(patterns, "ok", ValueList(patterns))

list_names(patterns) == RegResult(patterns, "ok", SortedFrom(KeyList(patterns), 1))

clear_all(patterns) == RegResult(PatternRegistry, "ok", << >>)

clear_custom(patterns) ==
    RegResult(SelectSeq(patterns,
                  LAMBDA e : e[1] \in {DEFAULT_PATTERNS[i].name : i \in 1..Len(DEFAULT_PATTERNS)}),
              "ok", << >>)

\* not s or not s.strip()
Blank(s) == s \in {"", " "}

\* cryptex_ai.patterns.register_pattern, on the global registry
register_pattern_ai(patterns, name, regex, placeholder) ==
    IF Blank(name)
    THEN RegResult(patterns, "ValueError: Pattern name cannot be empty", << >>)
    ELSE IF Blank(placeholder)
         THEN RegResult(patterns, "ValueError: Placeholder cannot be empty", << >>)
         ELSE register(patterns, name, regex, placeholder)

(***************************************************************************)
(* SpecReg: one caller on one registry.                                    *)
(***************************************************************************)
MaxRegCalls == 3

RegNames == {"openai_key", "custom_key", "", " "}

Regexes == {"x-[0-9]+", "y-[0-9]+", "("}

Templates == {"{{X}}", "", " "}

\* A registry call and its arguments, before it ran.
RegCall(op, name, pattern, placeholder_template) ==
    [op |-> op, name |-> name, pattern |-> pattern,
     placeholder_template |-> placeholder_template, status |-> "none", value |-> << >>]

InitReg ==
    /\ engine = PatternRegistry
    /\ now = 0
    /\ calls = 0
    /\ ret = RegCall("none", "", "", "")
    /\ san = NoOutcome
    /\ hist = HistInit
    /\ input = Other
    /\ pc = "start"
    /\ tasks = NoTasks

\* What a call does to the variables, given its result.
RegCalled(call, result) ==
    /\ calls < MaxRegCalls
    /\ engine' = result.patterns
    /\ ret' = [call EXCEPT !.status = result.status, !.value = result.value]
    /\ calls' = calls + 1
    /\ UNCHANGED <<now, san, hist, input, pc, tasks>>

RegRegister ==
    \E name \in RegNames, pattern \in Regexes, placeholder_template \in Templates :
        RegCalled(RegCall("register", name, pattern, placeholder_template),
                  register(engine, name, pattern, placeholder_template))

RegRegisterPattern ==
    \E name \in RegNames, regex \in Regexes, placeholder \in Templates :
        RegCalled(RegCall("register_pattern", name, regex, placeholder),
                  register_pattern_ai(engine, name, regex, placeholder))

RegUnregister ==
    \E name \in RegNames :
        RegCalled(RegCall("unregister", name, "", ""), unregister(engine, name))

RegGet ==
    \E name \in RegNames :
        RegCalled(RegCall("get", name, "", ""), get(engine, name))

RegGetAll == RegCalled(RegCall("get_all", "", "", ""), get_all(engine))

RegListNames == RegCalled(RegCall("list_names", "", "", ""), list_names(engine))

RegClearAll == RegCalled(RegCall("clear_all", "", "", ""), clear_all(engine))

RegClearCustom == RegCalled(RegCall("clear_custom", "", "", ""), clear_custom(engine))

NextReg ==
    \/ RegRegister
    \/ RegRegisterPattern
    \/ RegUnregister
    \/ RegGet
    \/ RegGetAll
    \/ RegListNames
    \/ RegClearAll
    \/ RegClearCustom

SpecReg == InitReg /\ [][NextReg]_vars

\* The arguments with which a register call must fail although the name is
\* free.
InvalidArguments(call) ==
    \/ call.pattern \in InvalidRegexes
    \/ Blank(call.name)
    \/ Blank(call.placeholder_template)

\* A register call on a present name fails as a duplicate, one with an
\* invalid regex or a blank name or placeholder fails as invalid, and both
\* leave the registry as it was; op names the entry point.
RegisterRejects(op) ==
    (CallStep /\ ret'.op = op) =>
        /\ ret'.name \in DictKeys(engine) =>
              (ret'.status = "ValueError: already registered" /\ engine' = engine)
        /\ (ret'.name \notin DictKeys(engine) /\ InvalidArguments(ret')) =>
              (ret'.status \notin {"ok", "ValueError: already registered"}
               /\ engine' = engine)

\* C26: PatternRegistry.register fails with the duplicate-name error when
\* the name is present, with the invalid-pattern error when the regex does
\* not compile or the name or the placeholder is empty or whitespace, and a
\* failed register leaves the registry unchanged.
RegisterValidates == [][RegisterRejects("register")]_vars

\* C27: after clear_custom the registry holds the built-in patterns, each
\* with its original definition, and nothing else.
ClearCustomRestoresSeed ==
    ret.op = "clear_custom" =>
        /\ DictKeys(engine) = DictKeys(PatternRegistry)
        /\ \A name \in DictKeys(PatternRegistry) :
              DictGet(engine, name) = DictGet(PatternRegistry, name)

(***************************************************************************)
(* SpecRegConc: several threads on one registry, each making one call.     *)
(* Every method body runs inside `with self._lock`; a thread runs the      *)
(* statements of the body one at a time and releases the lock when it      *)
(* leaves the body, by return or by raise.                                 *)
(***************************************************************************)
Threads == {"t1", "t2", "t3"}

NoOwner == "none"

ConcNames == {"custom_key", "other_key"}

ThreadCalls ==
    {RegCall("register", name, pattern, "{{X}}") : name \in ConcNames, pattern \in Regexes}
        \cup {RegCall(op, name, "", "") : op \in {"unregister", "get"}, name \in ConcNames}
        \cup {RegCall("list_names", "", "", "")}

\* Variant: the lock is never waited for.
CanAcquire_unlocked(lock, t) == TRUE

\* with self._lock: an RLock is free, or held by the thread itself
CanAcquire(lock, t) == lock \in {NoOwner, t}

InitRegConc ==
    /\ engine = [_patterns |-> PatternRegistry, _lock |-> NoOwner]
    /\ now = 0
    /\ calls = 0
    /\ ret = NoOutcome
    /\ san = NoOutcome
    /\ hist = HistInit
    /\ input = Other
    /\ pc = "start"
    /\ tasks \in [Threads -> {[call |-> c, pc |-> "begin"] : c \in ThreadCalls}]

RegConcUnchanged == UNCHANGED <<now, calls, ret, san, hist, input, pc>>

\* Thread t goes on to the statement at label next, inside the lock.
GoesOn(t, next) ==
    /\ tasks' = [tasks EXCEPT ![t].pc = next]
    /\ UNCHANGED engine
    /\ RegConcUnchanged

\* Thread t leaves the body: the dict is patterns, the call ended with
\* status and value, and the lock is released.
LeavesBody(t, patterns, status, value) ==
    /\ engine' = [_patterns |-> patterns, _lock |-> NoOwner]
    /\ tasks' = [tasks EXCEPT ![t].pc = "done",
                              ![t].call.status = status,
                              ![t].call.value = value]
    /\ RegConcUnchanged

\* with self._lock:
RcAcquire(t) ==
    /\ tasks[t].pc = "begin"
    /\ CanAcquire(engine._lock, t)
    /\ engine' = [engine EXCEPT !._lock = t]
    /\ tasks' = [tasks EXCEPT ![t].pc = "locked"]
    /\ RegConcUnchanged

\* register: if name in self._patterns: raise ValueError
RcRegisterCheck(t) ==
    /\ tasks[t].pc = "locked"
    /\ tasks[t].call.op = "register"
    /\ IF tasks[t].call.name \in DictKeys(engine._patterns)
       THEN LeavesBody(t, engine._patterns, "ValueError: already registered", << >>)
       ELSE GoesOn(t, "construct")

\* register: secret_pattern = BaseSecretPattern(...)
RcRegisterConstruct(t) ==
    /\ tasks[t].pc = "construct"
    /\ IF tasks[t].call.pattern \in InvalidRegexes
       THEN LeavesBody(t, engine._patterns, "ValueError: Invalid regex pattern", << >>)
       ELSE GoesOn(t, "insert")

\* register: self._patterns[name] = secret_pattern
RcRegisterInsert(t) ==
    /\ tasks[t].pc = "insert"
    /\ LeavesBody(t, DictSet(engine._patterns, tasks[t].call.name,
                      BaseSecretPattern(tasks[t].call.name, tasks[t].call.pattern,
                                        tasks[t].call.placeholder_template)),
               "ok", << >>)

\* unregister: if name in self._patterns: ... return False
RcUnregisterCheck(t) ==
    /\ tasks[t].pc = "locked"
    /\ tasks[t].call.op = "unregister"
    /\ IF tasks[t].call.name \in DictKeys(engine._patterns)
       THEN GoesOn(t, "delete")
       ELSE LeavesBody(t, engine._patterns, "ok", <<"False">>)

\* unregister: del self._patterns[name]; return True (KeyError when the
\* name is gone)
RcUnregisterDelete(t) ==
    /\ tasks[t].pc = "delete"
    /\ IF tasks[t].call.name \in DictKeys(engine._patterns)
       THEN LeavesBody(t, DictDel(engine._patterns, tasks[t].call.name), "ok", <<"True">>)
       ELSE LeavesBody(t, engine._patterns, "KeyError", << >>)

\* get and list_names: one return statement
RcRead(t) ==
    /\ tasks[t].pc = "locked"
    /\ tasks[t].call.op \in {"get", "list_names"}
    /\ \E r \in {IF tasks[t].call.op = "get"
                 THEN get(engine._patterns, tasks[t].call.name)
                 ELSE list_names(engine._patterns)} :
        LeavesBody(t, engine._patterns, r.status, r.value)

NextRegConc ==
    \E t \in Threads :
        \/ RcAcquire(t)
        \/ RcRegisterCheck(t)
        \/ RcRegisterConstruct(t)
        \/ RcRegisterInsert(t)
        \/ RcUnregisterCheck(t)
        \/ RcUnregisterDelete(t)
        \/ RcRead(t)

SpecRegConc == InitRegConc /\ [][NextRegConc]_vars

\* The call made alone on the dict patterns.
CallAlone(patterns, call) ==
    CASE call.op = "register" ->
            register(patterns, call.name, call.pattern, call.placeholder_template)
      [] call.op = "unregister" -> unregister(patterns, call.name)
      [] call.op = "get" -> get(patterns, call.name)
      [] OTHER -> list_names(patterns)

\* The orders in which the threads' calls can be made one after the other.
Orders == {o \in [1..Cardinality(Threads) -> Threads] : \A t \in Threads : \E i \in DOMAIN o : o[i] = t}

\* The dict after the calls of order from the i-th on were made on patterns,
\* provided each call ended as its thread saw it; "differs" otherwise.
RECURSIVE MadeInOrder(_, _, _)
MadeInOrder(patterns, order, i) ==
    IF i > Len(order) THEN <<"dict", patterns>>
    ELSE LET r == CallAlone(patterns, tasks[order[i]].call)
         IN IF r.status = tasks[order[i]].call.status /\ r.value = tasks[order[i]].call.value
            THEN MadeInOrder(r.patterns, order, i + 1)
            ELSE <<"differs", << >>>>

AllReturned == \A t \in Threads : tasks[t].pc = "done"

Registering(t) ==
    tasks[t].call.op = "register" /\ tasks[t].call.pattern \notin InvalidRegexes

\* C28: when all threads have returned, their results and the registry are
\* those of the calls made in some order one after the other; registers of
\* distinct names all succeeded and the names are present, and of registers
\* of one name exactly one succeeded.
AtomicRegistry ==
    AllReturned =>
        /\ \E order \in Orders :
              MadeInOrder(PatternRegistry, order, 1) = <<"dict", engine._patterns>>
        /\ (\A t \in Threads : Registering(t)) =>
              \A name \in ConcNames :
                  LET callers == {t \in Threads : tasks[t].call.name = name}
                  IN callers # {} =>
                        /\ Cardinality({t \in callers : tasks[t].call.status = "ok"}) = 1
                        /\ name \in DictKeys(engine._patterns)

\* Two threads registered one name with different patterns, a third another
\* name: one of the two failed as a duplicate, and both names are present.
AtomicRegistryWitness ==
    /\ AllReturned
    /\ tasks["t1"].call = [RegCall("register", "custom_key", "x-[0-9]+", "{{X}}")
                              EXCEPT !.status = "ValueError: already registered"]
    /\ tasks["t2"].call = [RegCall("register", "custom_key", "y-[0-9]+", "{{X}}")
                              EXCEPT !.status = "ok"]
    /\ tasks["t3"].call = [RegCall("register", "other_key", "x-[0-9]+", "{{X}}")
                              EXCEPT !.status = "ok"]
    /\ DictGet(engine._patterns, "custom_key").pattern = "y-[0-9]+"
    /\ "other_key" \in DictKeys(engine._patterns)

(***************************************************************************)
(* The registration API of cryptex.patterns.  The module's dict            *)
(* _pattern_registry holds the registered patterns only; the built-in ones *)
(* are read from a new engine each time they are listed.                   *)
(***************************************************************************)
\* [p.name for p in engine.patterns]
BuiltinNames == [i \in 1..Len(_get_default_patterns) |-> _get_default_patterns[i].name]

register_pattern(registry, name, regex, placeholder) ==
    IF Blank(name)
    THEN RegResult(registry, "ValueError: Pattern name cannot be empty", << >>)
    ELSE IF Blank(placeholder)
    THEN RegResult(registry, "ValueError: Placeholder cannot be empty", << >>)
    ELSE IF regex \in InvalidRegexes
    THEN RegResult(registry, "ValueError: Invalid regex pattern", << >>)
    ELSE IF name \in DictKeys(registry)
    THEN RegResult(registry, "ValueError: already registered", << >>)
    ELSE RegResult(DictSet(registry, name, BaseSecretPattern(name, regex, placeholder)),
                   "ok", << >>)

unregister_pattern(registry, name) ==
    IF name \in DictKeys(registry)
    THEN RegResult(DictDel(registry, name), "ok", <<"True">>)
    ELSE RegResult(registry, "ok", <<"False">>)

list_patterns(registry) ==
    RegResult(registry, "ok", SortedFrom(BuiltinNames \o KeyList(registry), 1))

get_all_patterns(registry) ==
    RegResult(registry, "ok", _get_default_patterns \o ValueList(registry))

clear_custom_patterns(registry) == RegResult(<< >>, "ok", << >>)

(***************************************************************************)
(* SpecApi: one caller of the module's functions.                          *)
(***************************************************************************)
InitApi ==
    /\ engine = << >>
    /\ now = 0
    /\ calls = 0
    /\ ret = RegCall("none", "", "", "")
    /\ san = NoOutcome
    /\ hist = HistInit
    /\ input = Other
    /\ pc = "start"
    /\ tasks = NoTasks

ApiRegisterPattern ==
    \E name \in RegNames, regex \in Regexes, placeholder \in Templates :
        RegCalled(RegCall("register_pattern", name, regex, placeholder),
                  register_pattern(engine, name, regex, placeholder))

ApiUnregisterPattern ==
    \E name \in RegNames :
        RegCalled(RegCall("unregister_pattern", name, "", ""),
                  unregister_pattern(engine, name))

ApiListPatterns == RegCalled(RegCall("list_patterns", "", "", ""), list_patterns(engine))

ApiGetAllPatterns ==
    RegCalled(RegCall("get_all_patterns", "", "", ""), get_all_patterns(engine))

ApiClearCustomPatterns ==
    RegCalled(RegCall("clear_custom_patterns", "", "", ""), clear_custom_patterns(engine))

NextApi ==
    \/ ApiRegisterPattern
    \/ ApiUnregisterPattern
    \/ ApiListPatterns
    \/ ApiGetAllPatterns
    \/ ApiClearCustomPatterns

SpecApi == InitApi /\ [][NextApi]_vars

NoDuplicates(seq) == \A i, j \in 1..Len(seq) : seq[i] = seq[j] => i = j

NamesOf(patterns) == [i \in 1..Len(patterns) |-> patterns[i].name]

\* C29: register_pattern fails when list_patterns() reports the name
\* already, and after every call of the API neither list_patterns() nor
\* get_all_patterns() reports a name twice.
NamesReportedOnce ==
    [][CallStep =>
        /\ (/\ ret'.op = "register_pattern"
            /\ ret'.name \in Range(list_patterns(engine).value))
              => ret'.status # "ok"
        /\ NoDuplicates(list_patterns(engine').value)
        /\ NoDuplicates(NamesOf(get_all_patterns(engine').value))]_vars

(***************************************************************************)
(* The middleware adapters: CryptexMiddleware.dispatch (FastAPI) and       *)
(* FastMCPCryptexMiddleware.process_request.  A request is known by its    *)
(* body (FastAPI, a string) or its params (FastMCP, any value); headers    *)
(* and query parameters are empty.  A response is known by its media type  *)
(* and its body or result.                                                 *)
(***************************************************************************)
MaxRequestSize == 3

MaxResponseSize == 3

Adapters == {"fastapi", "fastmcp"}

\* The frame line of the adapter's own code in a traceback.
MwFrame == <<"a", LineNumber>>

\* FastAPI _sanitize_request: the data handed to the engine; a body over the
\* limit raises ValueError inside the try whose except clause passes, and
\* is left out like an empty one
RequestData(body, sanitize_request_body) ==
    Dict((IF sanitize_request_body /\ body.text # << >>
              /\ ~(Len(body.text) > MaxRequestSize)
          THEN <<body>> ELSE << >>)
         \o <<Str(<<"a">>), Str(<<"a">>), Str(<<"a">>)>>)

\* The message both adapters put in place of a response over the limit.
Truncated == Str(<<"Response truncated">>)

\* The request in flight: the adapter and its options, how often call_next
\* was invoked, the context id of the request's sanitization, the response
\* of call_next, the exception caught, the body handed back and how the
\* handler ended.
MwRecord(adapter, auto_protect, sanitize_request_body) ==
    [adapter |-> adapter, auto_protect |-> auto_protect,
     sanitize_request_body |-> sanitize_request_body, invoked |-> 0,
     context_id |-> NoId, response |-> [media_type |-> "none", body |-> NoneValue],
     error |-> NoError, handed |-> NoneValue, outcome |-> "none"]

MwRequests ==
    {Str(<< >>), Str(<<"a">>), Str(<<"k", "a">>),
     Str([i \in 1..MaxRequestSize |-> "a"]),
     Str([i \in 1..(MaxRequestSize + 1) |-> "a"]),
     Str(<<"k">> \o [i \in 1..MaxRequestSize |-> "a"])}

\* Params that are containers: their strings together exceed the limit.
MwParams ==
    {List(<<Str(<<"a", "a">>), Str([i \in 1..(MaxRequestSize - 1) |-> "a"])>>),
     Dict(<<Str([i \in 1..(MaxRequestSize + 1) |-> "a"])>>)}

MwResponses ==
    {[media_type |-> m, body |-> b] :
        m \in {"application/json", "text/plain"},
        b \in {Str(<<"a">>), Str(<<"k", "a">>), Str([i \in 1..(MaxResponseSize + 1) |-> "a"])}}

InitMw ==
    /\ engine = EngineInit(MaxCacheSize)
    /\ now = 0
    /\ calls = 0
    /\ ret = NoOutcome
    /\ san = NoOutcome
    /\ hist = HistInit
    /\ pc = "start"
    /\ tasks \in {MwRecord(a, p, b) : a \in Adapters, p \in BOOLEAN, b \in BOOLEAN}
    /\ input \in MwRequests \cup (IF tasks.adapter = "fastmcp" THEN MwParams ELSE {})

\* What the request's sanitization does to the variables, given its result:
\* an exception of the engine is caught by the handler's except clause.
MwRequestSanitized(result) ==
    /\ engine' = result.engine
    /\ san' = result.ret
    /\ calls' = calls + 1
    /\ pc' = IF result.ret.status = "ok" THEN "sanitized" ELSE "failed"
    /\ tasks' = IF result.ret.status = "ok"
                THEN [tasks EXCEPT !.context_id = result.ret.context_id]
                ELSE [tasks EXCEPT !.error = EngineRaised(result.ret.status, MwFrame)]
    /\ UNCHANGED <<now, ret, hist, input>>

\* dispatch, phase 1: await self._sanitize_request(request)
FastApiSanitizeRequest ==
    /\ pc = "start"
    /\ tasks.adapter = "fastapi"
    /\ tasks.auto_protect
    /\ \E slow \in BOOLEAN :
        \E result \in {sanitize_for_ai(engine, now,
                           RequestData(input, tasks.sanitize_request_body), NoId, slow)} :
            MwRequestSanitized(result)

\* process_request, phase 1: await self._sanitize_request(request); the
\* size of the params is sys.getsizeof(request.params)
FastMcpSanitizeRequest ==
    /\ pc = "start"
    /\ tasks.adapter = "fastmcp"
    /\ tasks.auto_protect
    /\ IF GetSizeOf(input) > MaxRequestSize
       THEN /\ pc' = "failed"
            /\ tasks' = [tasks EXCEPT
                            !.error = Error("Exception", <<"a">>, <<MwFrame>>, "original")]
            /\ UNCHANGED <<engine, now, calls, ret, san, hist, input>>
       ELSE \E slow \in BOOLEAN :
                \E result \in {sanitize_for_ai(engine, now, input, NoId, slow)} :
                    MwRequestSanitized(result)

\* response = await call_next(request), with the original request; without
\* auto_protect nothing precedes it
MwCallNext ==
    /\ \/ pc = "sanitized"
       \/ pc = "start" /\ ~tasks.auto_protect
    /\ \E response \in MwResponses :
        tasks' = [tasks EXCEPT !.invoked = @ + 1, !.response = response]
    /\ pc' = "returned"
    /\ UNCHANGED <<engine, now, calls, ret, san, hist, input>>

\* The handler returns a response with the body handed.
MwReturns(handed) ==
    /\ pc' = "done"
    /\ tasks' = [tasks EXCEPT !.handed = handed, !.outcome = "response"]

\* dispatch, phase 3: _sanitize_response; only a JSON response is sanitized,
\* and an exception of the engine leaves the response as it is
FastApiSanitizeResponse ==
    /\ pc = "returned"
    /\ tasks.adapter = "fastapi"
    /\ IF ~tasks.auto_protect \/ tasks.response.media_type # "application/json"
       THEN /\ MwReturns(tasks.response.body)
            /\ UNCHANGED <<engine, now, calls, ret, san, hist, input>>
       ELSE IF Len(tasks.response.body.text) > MaxResponseSize
       THEN /\ MwReturns(Truncated)
            /\ UNCHANGED <<engine, now, calls, ret, san, hist, input>>
       ELSE \E slow \in BOOLEAN :
                \E r \in {sanitize_response(engine, now, tasks.response.body,
                                            tasks.context_id, slow)} :
                    /\ MwReturns(IF r.ret.status = "ok" THEN r.ret.data
                                 ELSE tasks.response.body)
                    /\ engine' = r.engine
                    /\ ret' = r.ret
                    /\ calls' = calls + 1
                    /\ UNCHANGED <<now, san, hist, input>>

\* process_request, phase 3: _sanitize_response; an exception of the engine
\* reaches the except clause
FastMcpSanitizeResponse ==
    /\ pc = "returned"
    /\ tasks.adapter = "fastmcp"
    /\ IF ~tasks.auto_protect
       THEN /\ MwReturns(tasks.response.body)
            /\ UNCHANGED <<engine, now, calls, ret, san, hist, input>>
       ELSE IF GetSizeOf(tasks.response.body) > MaxResponseSize
       THEN /\ MwReturns(Truncated)
            /\ UNCHANGED <<engine, now, calls, ret, san, hist, input>>
       ELSE \E slow \in BOOLEAN :
                \E r \in {sanitize_response(engine, now, tasks.response.body,
                                            tasks.context_id, slow)} :
                    /\ IF r.ret.status = "ok"
                       THEN MwReturns(r.ret.data)
                       ELSE /\ pc' = "failed"
                            /\ tasks' = [tasks EXCEPT
                                            !.error = EngineRaised(r.ret.status, MwFrame)]
                    /\ engine' = r.engine
                    /\ ret' = r.ret
                    /\ calls' = calls + 1
                    /\ UNCHANGED <<now, san, hist, input>>

\* The except clause of both handlers: sanitized_error = await
\* self._sanitize_error(e), which is engine.sanitize_traceback(e); dispatch
\* returns a JSONResponse with status 500, process_request raises
MwError ==
    /\ pc = "failed"
    /\ \E slow \in 0..MaxSlowCall :
        \E r \in {sanitize_traceback(engine, now, tasks.error, slow)} :
            /\ engine' = r.engine
            /\ tasks' = [tasks EXCEPT
                            !.outcome = IF tasks.adapter = "fastapi" /\ r.status = "ok"
                                        THEN "error response" ELSE "raised"]
    /\ calls' = calls + 1
    /\ pc' = "rejected"
    /\ UNCHANGED <<now, ret, san, hist, input>>

NextMw ==
    \/ FastApiSanitizeRequest
    \/ FastMcpSanitizeRequest
    \/ MwCallNext
    \/ FastApiSanitizeResponse
    \/ FastMcpSanitizeResponse
    \/ MwError

SpecMw == InitMw /\ [][NextMw]_vars

\* The request is over max_request_size: the body of a FastAPI request, the
\* strings of the params of a FastMCP request.
Oversized == TotalSize(input) > MaxRequestSize

\* C30: a request over max_request_size is rejected by either adapter with
\* its protection on: call_next is never invoked for it and the handler does
\* not end with the handler's response.
RequestCeiling ==
    (Oversized /\ tasks.auto_protect /\ tasks.sanitize_request_body)
        => (tasks.invoked = 0 /\ pc # "done")

(***************************************************************************)
(* SpecCache: several threads on the cache of one engine, each making one  *)
(* call.  The cache lock is a ReadWriteLock: two counters and two          *)
(* conditions, each condition over an RLock of its own.  A thread runs     *)
(* the statements of acquire_read, release_read, acquire_write and         *)
(* release_write one at a time; `with condition` takes the condition's     *)
(* RLock, wait() gives it up, sleeps until a notify_all on that condition  *)
(* and takes it again.  The statements a method runs while it holds the    *)
(* cache lock are one step.                                                *)
(***************************************************************************)
CacheThreads == {"t1", "t2", "t3"}

\* threading.Condition(threading.RLock())
Condition == [owner |-> NoOwner, waiters |-> {}]

\* ReadWriteLock.__init__
ReadWriteLock ==
    [_readers |-> 0, _writers |-> 0, _read_ready |-> Condition, _write_ready |-> Condition]

CacheCall(op, context_id) ==
    [op |-> op, context_id |-> context_id, found |-> FALSE, seen |-> 0,
     status |-> "running", value |-> "None"]

ReadOps == {"get_cache_stats", "_get_cached_context"}

CacheCalls ==
    {CacheCall(op, NoId) : op \in {"get_cache_stats", "clear_all_contexts"}}
        \cup {CacheCall(op, "ctx-A") :
                op \in {"_get_cached_context", "clear_context", "_cache_context"}}

\* The context the callers store and look up.
ContextA == SanitizedData(Str(<<"{{OPENAI_API_KEY}}">>),
                          <<<<<<"{{OPENAI_API_KEY}}">>, <<"k", "a">>>>>>, "ctx-A", 0)

\* The caches the threads start on: empty, or holding the context.
CachesAtStart ==
    {EngineInit(MaxCacheSize),
     [EngineInit(MaxCacheSize) EXCEPT !.context_cache = <<ContextA>>,
                                      !.last_access_times = Put(EmptyFn, "ctx-A", 0)]}

InitCache ==
    /\ engine \in {[cache |-> e, _cache_lock |-> ReadWriteLock] : e \in CachesAtStart}
    /\ now = 0
    /\ calls = 0
    /\ ret = NoOutcome
    /\ san = NoOutcome
    /\ hist = HistInit
    /\ input = Other
    /\ pc = "start"
    /\ tasks \in [CacheThreads ->
                    {[call |-> c,
                      pc |-> IF c.op \in ReadOps THEN "acquire_read" ELSE "acquire_write"] :
                        c \in CacheCalls}]

CacheUnchanged == UNCHANGED <<now, calls, ret, san, hist, input, pc>>

\* Thread t moves to the statement at label next; the lock becomes lock.
LockStep(t, lock, next) ==
    /\ engine' = [engine EXCEPT !._cache_lock = lock]
    /\ tasks' = [tasks EXCEPT ![t].pc = next]
    /\ CacheUnchanged

\* acquire_read: with self._read_ready:
AcquireReadEnter(t) ==
    /\ tasks[t].pc = "acquire_read"
    /\ CanAcquire(engine._cache_lock._read_ready.owner, t)
    /\ LockStep(t, [engine._cache_lock EXCEPT !._read_ready.owner = t], "acquire_read_test")

\* acquire_read: while self._writers > 0: self._read_ready.wait()
AcquireReadTest(t) ==
    /\ tasks[t].pc = "acquire_read_test"
    /\ IF engine._cache_lock._writers > 0
       THEN LockStep(t, [engine._cache_lock EXCEPT
                            !._read_ready.owner = NoOwner,
                            !._read_ready.waiters = @ \cup {t}], "acquire_read_wait")
       ELSE LockStep(t, engine._cache_lock, "acquire_read_count")

\* acquire_read: wait() returns once notified and the RLock is free again
AcquireReadWake(t) ==
    /\ tasks[t].pc = "acquire_read_wait"
    /\ t \notin engine._cache_lock._read_ready.waiters
    /\ CanAcquire(engine._cache_lock._read_ready.owner, t)
    /\ LockStep(t, [engine._cache_lock EXCEPT !._read_ready.owner = t], "acquire_read_test")

\* acquire_read: self._readers += 1, and the with block ends
AcquireReadCount(t) ==
    /\ tasks[t].pc = "acquire_read_count"
    /\ LockStep(t, [engine._cache_lock EXCEPT !._readers = @ + 1,
                                              !._read_ready.owner = NoOwner], "read_section")

\* release_read, the whole with block
ReleaseRead(t) ==
    /\ tasks[t].pc = "release_read"
    /\ CanAcquire(engine._cache_lock._read_ready.owner, t)
    /\ LET lock == [engine._cache_lock EXCEPT
                        !._readers = @ - 1,
                        !._read_ready.waiters =
                            IF engine._cache_lock._readers = 1 THEN {} ELSE @]
       IN IF tasks[t].call.op = "_get_cached_context" /\ tasks[t].call.found
          THEN LockStep(t, lock, "acquire_write")
          ELSE /\ engine' = [engine EXCEPT !._cache_lock = lock]
               /\ tasks' = [tasks EXCEPT ![t].pc = "done", ![t].call.status = "ok"]
               /\ CacheUnchanged

\* acquire_write: with self._write_ready:
AcquireWriteEnter(t) ==
    /\ tasks[t].pc = "acquire_write"
    /\ CanAcquire(engine._cache_lock._write_ready.owner, t)
    /\ LockStep(t, [engine._cache_lock EXCEPT !._write_ready.owner = t], "acquire_write_test")

\* acquire_write: while self._writers > 0 or self._readers > 0: wait()
AcquireWriteTest(t) ==
    /\ tasks[t].pc = "acquire_write_test"
    /\ IF engine._cache_lock._writers > 0 \/ engine._cache_lock._readers > 0
       THEN LockStep(t, [engine._cache_lock EXCEPT
                            !._write_ready.owner = NoOwner,
                            !._write_ready.waiters = @ \cup {t}], "acquire_write_wait")
       ELSE LockStep(t, engine._cache_lock, "acquire_write_count")

\* acquire_write: wait() returns once notified and the RLock is free again
AcquireWriteWake(t) ==
    /\ tasks[t].pc = "acquire_write_wait"
    /\ t \notin engine._cache_lock._write_ready.waiters
    /\ CanAcquire(engine._cache_lock._write_ready.owner, t)
    /\ LockStep(t, [engine._cache_lock EXCEPT !._write_ready.owner = t], "acquire_write_test")

\* acquire_write: self._writers += 1, and the with block ends
AcquireWriteCount(t) ==
    /\ tasks[t].pc = "acquire_write_count"
    /\ LockStep(t, [engine._cache_lock EXCEPT !._writers = @ + 1,
                                              !._write_ready.owner = NoOwner], "write_section")

\* release_write, the first with block: the writers' condition
ReleaseWrite(t) ==
    /\ tasks[t].pc = "release_write"
    /\ CanAcquire(engine._cache_lock._write_ready.owner, t)
    /\ LockStep(t, [engine._cache_lock EXCEPT !._writers = @ - 1,
                                              !._write_ready.waiters = {}],
                "release_write_notify")

\* release_write, the second with block: the readers' condition
ReleaseWriteNotify(t) ==
    /\ tasks[t].pc = "release_write_notify"
    /\ CanAcquire(engine._cache_lock._read_ready.owner, t)
    /\ engine' = [engine EXCEPT !._cache_lock._read_ready.waiters = {}]
    /\ tasks' = [tasks EXCEPT ![t].pc = "done",
                              ![t].call.status = IF @ = "running" THEN "ok" ELSE @]
    /\ CacheUnchanged

\* What a method does to the cache and to its call while it holds the lock;
\* it goes on to the statement at label next.
SectionStep(t, cache, call, next) ==
    /\ engine' = [engine EXCEPT !.cache = cache]
    /\ tasks' = [tasks EXCEPT ![t] = [call |-> call, pc |-> next]]
    /\ CacheUnchanged

\* get_cache_stats, and the read section of _get_cached_context up to the
\* read of the counter it is about to add one to
ReadSection(t) ==
    /\ tasks[t].pc = "read_section"
    /\ LET call == tasks[t].call
           hit == call.context_id \in CacheIds(engine.cache.context_cache)
       IN IF call.op = "get_cache_stats"
          THEN SectionStep(t, engine.cache,
                           [call EXCEPT !.value = "stats",
                                        !.seen = get_cache_stats(engine.cache.context_cache,
                                                     engine.cache.max_cache_size).cached_contexts],
                           "release_read")
          ELSE SectionStep(t, engine.cache,
                           [call EXCEPT !.found = hit,
                                        !.seen = IF hit
                                                 THEN engine.cache.performance_metrics.cache_hits
                                                 ELSE engine.cache.performance_metrics.cache_misses],
                           "count_lookup")

\* _get_cached_context: the counter is written, one more than it was read
CountLookup(t) ==
    /\ tasks[t].pc = "count_lookup"
    /\ LET call == tasks[t].call
       IN SectionStep(t,
              IF call.found
              THEN [engine.cache EXCEPT !.performance_metrics.cache_hits = call.seen + 1]
              ELSE [engine.cache EXCEPT !.performance_metrics.cache_misses = call.seen + 1],
              call, "release_read")

\* The write sections: _cache_context, clear_context, clear_all_contexts
\* and the promotion of _get_cached_context
WriteSection(t) ==
    /\ tasks[t].pc = "write_section"
    /\ LET call == tasks[t].call
           e == engine.cache
       IN CASE call.op = "_cache_context" ->
                  \E c \in {_cache_context(e.context_cache, e.last_access_times,
                                           e.max_cache_size, call.context_id, ContextA, now)} :
                      SectionStep(t, [e EXCEPT !.context_cache = c.cache,
                                               !.last_access_times = c.last_access],
                                  call, "release_write")
            [] call.op = "clear_context" ->
                  \E r \in {clear_context(e, call.context_id)} :
                      SectionStep(t, r.engine,
                                  [call EXCEPT !.value = IF r.ret.cleared THEN "True" ELSE "False"],
                                  "release_write")
            [] call.op = "clear_all_contexts" ->
                  \E r \in {clear_all_contexts(e)} :
                      SectionStep(t, r.engine, [call EXCEPT !.seen = r.ret.count,
                                                            !.value = "count"],
                                  "release_write")
            [] OTHER ->
                  IF call.context_id \in CacheIds(e.context_cache)
                  THEN SectionStep(t,
                           [e EXCEPT !.context_cache =
                                        Append(CacheDel(@, call.context_id),
                                               CacheGet(@, call.context_id)),
                                     !.last_access_times = Put(@, call.context_id, now)],
                           [call EXCEPT !.value = "context"], "release_write")
                  ELSE SectionStep(t, e, call, "release_write")

\* The statements thread t can run.
ThreadStep(t) ==
    \/ AcquireReadEnter(t)
    \/ AcquireReadTest(t)
    \/ AcquireReadWake(t)
    \/ AcquireReadCount(t)
    \/ ReadSection(t)
    \/ CountLookup(t)
    \/ ReleaseRead(t)
    \/ AcquireWriteEnter(t)
    \/ AcquireWriteTest(t)
    \/ AcquireWriteWake(t)
    \/ AcquireWriteCount(t)
    \/ WriteSection(t)
    \/ ReleaseWrite(t)
    \/ ReleaseWriteNotify(t)

NextCache == \E t \in CacheThreads : ThreadStep(t)

SpecCache == InitCache /\ [][NextCache]_vars

\* Every thread goes on running while it has a statement it can run.
SpecCacheFair == SpecCache /\ \A t \in CacheThreads : WF_vars(ThreadStep(t))

HoldsRead(t) == tasks[t].pc \in {"read_section", "count_lookup", "release_read"}

HoldsWrite(t) == tasks[t].pc \in {"write_section", "release_write"}

CacheReturned == \A t \in CacheThreads : tasks[t].pc = "done"

\* C31: under fair scheduling of the threads, every call of every thread
\* returns.
EveryCallReturns == <>CacheReturned

\* C32: no thread holds the write lock while another thread holds a read
\* lock or the write lock.
WriterExcludesOthers ==
    \A t \in CacheThreads :
        \A u \in CacheThreads \ {t} :
            HoldsWrite(t) => ~HoldsRead(u) /\ ~HoldsWrite(u)

LookupsReturning(value) ==
    {t \in CacheThreads : tasks[t].call.op = "_get_cached_context"
                            /\ tasks[t].pc = "done" /\ tasks[t].call.value = value}

\* C33: once the threads have returned, the hit counter is the number of
\* lookups that returned the snapshot and the miss counter is the number
\* of lookups that returned absent.
LookupsAccounted ==
    CacheReturned =>
        /\ engine.cache.performance_metrics.cache_hits = Cardinality(LookupsReturning("context"))
        /\ engine.cache.performance_metrics.cache_misses = Cardinality(LookupsReturning("None"))

(***************************************************************************)
(* Resolution in one pass over the text: at every position the first       *)
(* placeholder of the map that starts there is replaced by its real value  *)
(* and the scan goes on after it; the text put in is not read again.       *)
(***************************************************************************)
RECURSIVE ResolveOnce(_, _)
ResolveOnce(text, placeholder_map) ==
    IF text = << >> THEN << >>
    ELSE LET starting == {i \in 1..Len(placeholder_map) :
                            OccursAt(text, placeholder_map[i][1], 0)}
         IN IF starting = {}
            THEN <<Head(text)>> \o ResolveOnce(Tail(text), placeholder_map)
            ELSE LET i == CHOOSE j \in starting : \A k \in starting : j <= k
                 IN placeholder_map[i][2]
                        \o ResolveOnce(SliceFrom(text, Len(placeholder_map[i][1])),
                                       placeholder_map)

\* The same over the strings resolve_for_execution reaches in data.
RECURSIVE ResolvedOnce(_, _)
ResolvedOnce(data, placeholder_map) ==
    CASE data.kind = "str" -> Str(ResolveOnce(data.text, placeholder_map))
      [] data.kind = "dict" ->
            Dict([i \in 1..Len(data.items) |-> ResolvedOnce(data.items[i], placeholder_map)])
      [] data.kind \in {"list", "tuple"} ->
            List([i \in 1..Len(data.items) |-> ResolvedOnce(data.items[i], placeholder_map)])
      [] OTHER -> data

\* C34: what resolve_for_execution returns is the one-pass resolution of its
\* argument: no text put in for one placeholder is rewritten for another.
NoDoubleSubstitution ==
    ResolveReturned => ret.data = ResolvedOnce(ret.arg, san.placeholders)

\* The texts of the strings reached from data through dict values, list and
\* tuple items and the attributes of objects, at any depth.
RECURSIVE StringsOf(_)
StringsOf(data) ==
    CASE data.kind = "str" -> {data.text}
      [] data.kind \in {"dict", "list", "tuple", "object"} ->
            UNION {StringsOf(data.items[i]) : i \in 1..Len(data.items)}
      [] OTHER -> {}

\* C35: every match of a pattern in a string reached from the value through
\* dict values, sequence items and object attributes is among the secrets
\* Detection reports for the value.
DetectionCoverage ==
    SanitizeReturned =>
        \A text \in StringsOf(input) :
            \A i \in 1..Len(DetectableIn(text)) :
                \E j \in 1..Len(DetectedInInput) :
                    /\ DetectedInInput[j].value = DetectableIn(text)[i].value
                    /\ DetectedInInput[j].pattern_name = DetectableIn(text)[i].pattern_name

\* A step that is a call in which sanitize_for_ai raised the performance
\* error: a sanitize_for_ai call, or the sanitize_for_ai call that
\* sanitize_response makes for a context it does not find.
ViolationStep ==
    /\ CallStep
    /\ ret'.op \in {"sanitize_for_ai", "sanitize_response"}
    /\ ret'.status = "PerformanceError"

\* What Substitution gives for data.
Substituted(data) ==
    _replace_with_placeholders(data,
        _detect_secrets(_get_default_patterns, CompiledOf(_get_default_patterns), data))

\* The engine e holds, under id, the complete snapshot of data, and
\* resolving the snapshot's data with id succeeds.
StoredComplete(e, t, data, id) ==
    /\ id \in CacheIds(e.context_cache)
    /\ CacheGet(e.context_cache, id).data = Substituted(data).data
    /\ CacheGet(e.context_cache, id).placeholders = Substituted(data).placeholders
    /\ resolve_for_execution(e, t, Substituted(data).data, id, FALSE).ret.status = "ok"

\* C36: when sanitize_for_ai raises the performance error, the complete
\* snapshot of its input is stored under the call's context id and
\* resolves, and the violation counter is one more than before the call.
ViolationAfterWork ==
    [][ViolationStep =>
            /\ StoredComplete(engine', now, ret'.arg, ret'.stored_id)
            /\ engine'.performance_metrics.performance_violations
                    = engine.performance_metrics.performance_violations + 1]_vars

ViolationAfterWorkWitness ==
    /\ ret.op = "sanitize_for_ai"
    /\ ret.status = "PerformanceError"
    /\ ret.arg = Str(<<"k", "b">>)
    /\ StoredComplete(engine, now, ret.arg, ret.stored_id)
    /\ ret.stored_id = ret.context_id
    /\ engine.performance_metrics.performance_violations = 2

(***************************************************************************)
(* SpecCacheOps: the operations that change the cache, called one after    *)
(* another on an engine whose cache already holds contexts stored by       *)
(* earlier sanitize_for_ai calls, and the shutdown of the FastMCP          *)
(* middleware that owns the engine.                                        *)
(***************************************************************************)
MaxOpsCacheSize == 3

MaxOpsCalls == 2

OpsIds == {"ctx-A", "ctx-B", "ctx-C", "ctx-D"}

\* The orders in which up to n of the ids can have been stored.
RECURSIVE StoreOrders(_)
StoreOrders(n) ==
    IF n = 0 THEN {<< >>}
    ELSE LET shorter == StoreOrders(n - 1)
         IN shorter \cup {Append(order, id) :
                            order \in shorter, id \in OpsIds}

\* The engine after sanitize_for_ai was called with a key under each id of
\* order in turn.
RECURSIVE StoredInOrder(_, _)
StoredInOrder(e, order) ==
    IF order = << >> THEN e
    ELSE StoredInOrder(sanitize_for_ai(e, 0, Str(<<"k", "a">>), Head(order), FALSE).engine,
                       Tail(order))

InitCacheOps ==
    /\ engine \in {StoredInOrder(EngineInit(MaxOpsCacheSize), order) :
                        order \in StoreOrders(MaxOpsCacheSize)}
    /\ now = 0
    /\ calls = 0
    /\ ret = NoOutcome
    /\ san = NoOutcome
    /\ hist = HistInit
    /\ input = Other
    /\ pc = "engine"
    /\ tasks = NoTasks

OpsSanitize ==
    \E context_id \in OpsIds :
        Called(sanitize_for_ai(engine, now, Str(<<"k", "b">>), context_id, FALSE),
               MaxOpsCalls)

OpsResolve ==
    \E context_id \in OpsIds :
        Called(resolve_for_execution(engine, now, Str(<<"{{OPENAI_API_KEY}}">>),
                                     context_id, FALSE), MaxOpsCalls)

OpsClearContext ==
    \E context_id \in OpsIds : Called(clear_context(engine, context_id), MaxOpsCalls)

OpsClearAllContexts == Called(clear_all_contexts(engine), MaxOpsCalls)

\* FastMCPCryptexMiddleware.shutdown: self.engine._context_cache.clear()
shutdown(e) ==
    [engine |-> [e EXCEPT !.context_cache = << >>],
     ret |-> Outcome("shutdown", NoId, Other)]

OpsShutdown == Called(shutdown(engine), MaxOpsCalls)

NextCacheOps ==
    \/ OpsSanitize
    \/ OpsResolve
    \/ OpsClearContext
    \/ OpsClearAllContexts
    \/ OpsShutdown
    \/ BackgroundCleanup
    \/ Tick

SpecCacheOps == InitCacheOps /\ [][NextCacheOps]_vars

\* The place of the context of id in the cache c, oldest first.
PlaceOf(c, id) == CHOOSE i \in 1..Len(c) : c[i].context_id = id

\* The cache after holds the contexts of the cache before except the one of
\* id, each as it was and in the same order.
OnlyRemoved(before, after, id) ==
    /\ CacheIds(after) = CacheIds(before) \ {id}
    /\ Len(after) = Cardinality(CacheIds(after))
    /\ \A other \in CacheIds(after) : CacheGet(after, other) = CacheGet(before, other)
    /\ \A a \in CacheIds(after) :
          \A b \in CacheIds(after) :
              PlaceOf(after, a) < PlaceOf(after, b) <=> PlaceOf(before, a) < PlaceOf(before, b)

\* C37: clear_context(id) returns true exactly when id was cached, removes
\* that context and no other, keeps the others and their order, and leaves
\* id unresolvable; an id enters the cache only by a store under it;
\* clear_all_contexts returns the number of cached contexts and leaves the
\* cache empty.
ClearRemovesOnlyThat ==
    [][/\ (CallStep /\ ret'.op = "clear_context") =>
            /\ ret'.cleared <=> ret'.context_id \in CacheIds(engine.context_cache)
            /\ OnlyRemoved(engine.context_cache, engine'.context_cache, ret'.context_id)
            /\ resolve_for_execution(engine', now, Str(<<"{{OPENAI_API_KEY}}">>),
                                     ret'.context_id, FALSE).ret.status = "ContextError"
       /\ (CallStep /\ ret'.op = "clear_all_contexts") =>
            /\ ret'.count = Len(engine.context_cache)
            /\ engine'.context_cache = << >>
       /\ \A id \in CacheIds(engine'.context_cache) \ CacheIds(engine.context_cache) :
            CallStep /\ ret'.stored_id = id]_vars

ClearRemovesOnlyThatWitness ==
    /\ ret.op = "clear_context"
    /\ ret.cleared
    /\ ret.context_id = "ctx-B"
    /\ Len(engine.context_cache) = 2
    /\ engine.context_cache[1].context_id = "ctx-C"
    /\ engine.context_cache[2].context_id = "ctx-A"

\* C39: the last-access-time table holds an entry for exactly the ids of
\* the cached contexts.
AccessTimesMatchCache ==
    DOMAIN engine.last_access_times = CacheIds(engine.context_cache)

(***************************************************************************)
(* SpecIntercept: protected calls of one UniversalProtection and the AI    *)
(* client methods their interception contexts patch.  A method is the      *)
(* sequence of wrappers around the original method, outermost first, each  *)
(* named by the call that made it: << >> is the original method.  A call   *)
(* of a synchronous function enters and leaves its context in one step;    *)
(* a call of a coroutine function is suspended inside the context while    *)
(* the function awaits, and another call can run meanwhile.  What the      *)
(* call does to the engine is in SpecCall.                                 *)
(***************************************************************************)
AiModules == {"openai", "anthropic"}

\* The module is not in sys.modules.
NotImported == <<"not imported">>

InterceptedCalls == {"c1", "c2", "c3"}

\* _create_ai_interception_context up to the yield: every imported module's
\* create method is wrapped and the method it had is kept in patches
EnterContext(methods, call) ==
    [methods |-> [m \in AiModules |->
                    IF methods[m] = NotImported THEN NotImported
                    ELSE <<call>> \o methods[m]],
     patches |-> [m \in {n \in AiModules : methods[n] # NotImported} |-> methods[m]]]

\* _create_ai_interception_context, the finally clause: setattr(obj,
\* attr_name, original_method) for every patch
LeaveContext(methods, patches) ==
    [m \in AiModules |-> IF m \in DOMAIN patches THEN patches[m] ELSE methods[m]]

InitIntercept ==
    /\ engine \in [AiModules -> {NotImported, << >>}]
    /\ now = 0
    /\ calls = 0
    /\ ret = NoOutcome
    /\ san = NoOutcome
    /\ hist = HistInit
    /\ input = Other
    /\ pc = "start"
    /\ tasks \in [InterceptedCalls ->
                    {[pc |-> "begin", coroutine |-> c, raises |-> r, patches |-> EmptyFn] :
                        c \in BOOLEAN, r \in BOOLEAN}]

InterceptUnchanged == UNCHANGED <<now, calls, ret, san, hist, input, pc>>

\* protect_call of a synchronous function: with ...: result = func(...)
ProtectSyncCall(call) ==
    /\ tasks[call].pc = "begin"
    /\ ~tasks[call].coroutine
    /\ \E entered \in {EnterContext(engine, call)} :
          /\ engine' = LeaveContext(entered.methods, entered.patches)
          /\ tasks' = [tasks EXCEPT ![call].pc = "done"]
    /\ InterceptUnchanged

\* protect_call of a coroutine function, up to the suspension of
\* `await func(...)` inside the with block
ProtectCallEnter(call) ==
    /\ tasks[call].pc = "begin"
    /\ tasks[call].coroutine
    /\ \E entered \in {EnterContext(engine, call)} :
          /\ engine' = entered.methods
          /\ tasks' = [tasks EXCEPT ![call].pc = "inside",
                                    ![call].patches = entered.patches]
    /\ InterceptUnchanged

\* the function returns or raises: the with block is left either way
ProtectCallLeave(call) ==
    /\ tasks[call].pc = "inside"
    /\ engine' = LeaveContext(engine, tasks[call].patches)
    /\ tasks' = [tasks EXCEPT ![call].pc = "done"]
    /\ InterceptUnchanged

NextIntercept ==
    \E call \in InterceptedCalls :
        \/ ProtectSyncCall(call)
        \/ ProtectCallEnter(call)
        \/ ProtectCallLeave(call)

SpecIntercept == InitIntercept /\ [][NextIntercept]_vars

\* C38: once every protected call has finished, every AI client method is
\* the original method again.
InterceptionUndone ==
    (\A call \in InterceptedCalls : tasks[call].pc = "done") =>
        \A m \in AiModules : engine[m] \in {NotImported, << >>}

(***************************************************************************)
(* SpecPat: add_pattern, remove_pattern and detection on one engine's      *)
(* pattern list and compiled-matcher table.                                *)
(***************************************************************************)
MaxPatterns == 4

\* A caller's pattern under the name of a default pattern, with another regex.
SecondOpenAIKeyPattern ==
    [name |-> "openai_key",
     head |-> <<{"a"}, {"b"}>>,
     tail |-> {},
     template |-> <<"{{OPENAI_API_KEY}}">>]

CustomPattern ==
    [name |-> "custom",
     head |-> <<{"b"}, {"a"}>>,
     tail |-> {},
     template |-> <<"custom">>]

AddedPatterns == {OpenAIKeyPattern, SecondOpenAIKeyPattern, CustomPattern}

PatternNames == {"openai_key", "file_path", "custom", "unlisted"}

PatTexts == {<<"k", "a">>, <<"a", "b">>, <<"b", "a">>, <<"H", "a">>}

RegexOf(pattern) == [head |-> pattern.head, tail |-> pattern.tail]

Listed(patterns, pattern_name) ==
    \E i \in 1..Len(patterns) : patterns[i].name = pattern_name

add_pattern(e, pattern) ==
    [e EXCEPT !.patterns = Append(e.patterns, pattern),
              !._compiled_patterns =
                  [n \in DOMAIN e._compiled_patterns \cup {pattern.name} |->
                      IF n = pattern.name THEN RegexOf(pattern)
                      ELSE e._compiled_patterns[n]]]

remove_pattern(e, pattern_name) ==
    LET kept == SelectSeq(e.patterns, LAMBDA p : p.name # pattern_name)
    IN [engine |-> [e EXCEPT !.patterns = kept,
                             !._compiled_patterns =
                                 [n \in DOMAIN e._compiled_patterns \ {pattern_name} |->
                                     e._compiled_patterns[n]]],
        removed |-> Len(kept) < Len(e.patterns)]

InitPat ==
    /\ engine = [patterns |-> _get_default_patterns,
                 _compiled_patterns |-> CompiledOf(_get_default_patterns)]
    /\ now = 0
    /\ calls = 0
    /\ ret = [op |-> "none"]
    /\ san = NoOutcome
    /\ hist = HistInit
    /\ input = Other
    /\ pc = "start"
    /\ tasks = EmptyFn

PatUnchanged == UNCHANGED <<now, calls, san, hist, input, pc, tasks>>

AddPattern ==
    /\ Len(engine.patterns) < MaxPatterns
    /\ \E pattern \in AddedPatterns :
          /\ engine' = add_pattern(engine, pattern)
          /\ ret' = [op |-> "add_pattern", pattern |-> pattern]
    /\ PatUnchanged

RemovePattern ==
    /\ \E pattern_name \in PatternNames :
          \E r \in {remove_pattern(engine, pattern_name)} :
              /\ engine' = r.engine
              /\ ret' = [op |-> "remove_pattern", pattern_name |-> pattern_name,
                         listed |-> Listed(engine.patterns, pattern_name),
                         removed |-> r.removed]
    /\ PatUnchanged

DetectInString ==
    /\ \E text \in PatTexts :
          ret' = [op |-> "_detect_secrets_in_string", text |-> text,
                  detected |-> _detect_secrets_in_string(
                                   engine.patterns, engine._compiled_patterns, text)]
    /\ UNCHANGED engine
    /\ PatUnchanged

NextPat == AddPattern \/ RemovePattern \/ DetectInString

SpecPat == InitPat /\ [][NextPat]_vars

\* Every listed pattern matched with its own regex.
RECURSIVE OwnMatches(_, _, _)
OwnMatches(patterns, text, i) ==
    IF i > Len(patterns) THEN << >>
    ELSE MatchesOf(patterns[i], RegexOf(patterns[i]), text)
             \o OwnMatches(patterns, text, i + 1)

\* C40: the compiled-matcher table has exactly one entry per listed pattern,
\* detection matches each listed pattern with that pattern's own regex, and
\* remove_pattern returns true exactly when the name was listed.
PatternsAndMatchersConsistent ==
    /\ Cardinality(DOMAIN engine._compiled_patterns) = Len(engine.patterns)
    /\ \A i \in 1..Len(engine.patterns) :
          /\ engine.patterns[i].name \in DOMAIN engine._compiled_patterns
          /\ engine._compiled_patterns[engine.patterns[i].name]
                 = RegexOf(engine.patterns[i])
    /\ ret.op = "_detect_secrets_in_string" =>
          ret.detected = OwnMatches(engine.patterns, ret.text, 1)
    /\ ret.op = "remove_pattern" => (ret.removed <=> ret.listed)

\* The same with every listed name distinct: it holds.
X40 ==
    (\A i, j \in 1..Len(engine.patterns) :
        engine.patterns[i].name = engine.patterns[j].name => i = j)
        => PatternsAndMatchersConsistent

\* remove_pattern's return value alone: it holds.
X40b == ret.op = "remove_pattern" => (ret.removed <=> ret.listed)

====
